---- MODULE Spec2Model ----
(***************************************************************************)
(* Model of the object listing page of the S3GW UI                         *)
(* (ObjectDatatablePageComponent): the listing reload (loadData), the      *)
(* version reconciliation done in its `next` handler and the expanded-row  *)
(* attribute cache (onExpandedRowsChange) and the bulk operations          *)
(* (doDelete, doDownload, doUpload), the latter for both versions of the   *)
(* component: the one under frontend/ ("frontend") and the older,          *)
(* non-versioned one under app/ ("app").                                   *)
(*                                                                         *)
(* Every step of the model is one run-to-completion callback of the        *)
(* single-threaded event loop: a user/timer event, or the delivery of one  *)
(* notification (next / complete / error) of an outstanding observable.    *)
(***************************************************************************)
EXTENDS Integers, Sequences, FiniteSets, TLC

\* ---------------------------------------------------------------------
\* Bounds of the exploration
\* ---------------------------------------------------------------------
\* number of loadData calls explored (reloads, toggles) by SpecListing
MaxLoads == 2
\* number of loadData calls explored by Spec
MaxReloads == 1
\* number of user and timer events (loadData calls and expansion events
\* together) explored by Spec
MaxOps == 4
\* the same number for SpecBatch
MaxBatchOps == 2
\* number of records delivered by one emission (page) of a listing; the
\* last page of a listing may be shorter
MaxPage == 2
\* largest number of rows in one expansion event
MaxExpand == 2
\* number of events (an expansion event counts once, a listing twice: its
\* call and its answer), and largest number of rows in one expansion event,
\* explored by SpecExpand
MaxExpandOps == 4
MaxExpandRows == 3
\* number of loadData calls (those of the bulk operations included), number
\* of bulk operations requested and largest number of selected rows
\* explored by SpecDelete and SpecDownload
MaxBulkLoads == 2
MaxBulk == 1
MaxSelect == 3
\* largest number of files of an upload, and number of requests made on
\* behalf of the user that SpecUpload explores after the first listing (an
\* expansion event counts once, an upload twice: its stream and its reload)
MaxFiles == 5
MaxUploadOps == 3

\* largest number of rows handed to the datatable by SpecTable
MaxTableRows == 2

\* largest number of calls of the key validator explored by SpecValidate
MaxValidations == 2

\* longest number text handed to toBytes, longest path segment and
\* largest number of path segments explored by SpecHelpers
MaxHeadLen == 3
MaxSegLen == 2
MaxSegs == 2

\* ---------------------------------------------------------------------
\* Records returned by the storage API (S3ObjectVersion)
\* ---------------------------------------------------------------------
\* VersionId of a record that carries none (folder placeholder)
Absent == "<absent>"
\* the literal the storage API uses for objects of an unversioned bucket
NullVersion == "null"
\* value of objectNumVersions[key] read for a key that is not in the index
Undefined == -1

Rec(k, v, latest, deleted, type) ==
  [Key |-> k, VersionId |-> v, IsLatest |-> latest, IsDeleted |-> deleted, Type |-> type]

A3 == Rec("A", "v3", TRUE, FALSE, "OBJECT")
A2 == Rec("A", "v2", FALSE, FALSE, "OBJECT")
A1 == Rec("A", "v1", FALSE, FALSE, "OBJECT")
B1 == Rec("B", "v1", TRUE, TRUE, "OBJECT")
C0 == Rec("C", NullVersion, TRUE, FALSE, "OBJECT")
F0 == Rec("F", Absent, TRUE, FALSE, "FOLDER")

\* The answers listObjectVersions can give: the version list of the
\* listed prefix, in the order of the storage API.
Listings ==
  { <<A3, A2, A1, B1>>,
    <<A3, B1, C0, F0>> }

\* ---------------------------------------------------------------------
\* Helpers: maps with a dynamic key set (JS objects used as dictionaries)
\* ---------------------------------------------------------------------
EmptyMap == [k \in {} |-> 0]
Has(m, k) == k \in DOMAIN m
Put(m, k, v) == [x \in (DOMAIN m) \cup {k} |-> IF x = k THEN v ELSE m[x]]
PickKeys(m, S) == [x \in (DOMAIN m) \cap S |-> m[x]]
GetOr(m, k, d) == IF k \in DOMAIN m THEN m[k] ELSE d

Range(s) == {s[i] : i \in DOMAIN s}
KeysOf(rows) == {rows[i].Key : i \in DOMAIN rows}
Min(a, b) == IF a < b THEN a ELSE b

\* isObjectVersionID(value, excludeNull): the value is an explicit version
\* id, i.e. present and, with excludeNull, not the 'null' literal.
IsObjectVersionID(v, excludeNull) ==
  /\ v # Absent
  /\ ~(excludeNull /\ v = NullVersion)

VARIABLES
  objects,                \* the displayed row set
  objectAttrsCache,       \* key -> merged attribute record
  objectNumVersions,      \* key -> number of explicit version ids
  loadingObjectAttrsKeys, \* keys shown as loading
  pageStatus,
  firstLoadComplete,
  showDeletedObjects,
  listings,               \* outstanding listObjectVersions subscriptions
  loadSeq,                \* number of loadData calls so far
  batches,                \* outstanding forkJoin(getObjectAttributes...)
  expandSeq,              \* number of expansion events so far
  variant,                \* the version of the component: "frontend" or "app"
  isBucketVersioned,
  versioning,             \* the getVersioning call of ngOnInit: "none" before
                          \* ngOnInit, then "pending", "done" or "failed"
  bucketVersioned,        \* (storage) whether the bucket is version-enabled
  dialog,                 \* the confirmation dialog opened by doDelete
  deletes,                \* outstanding delete sequences
  uploads,                \* outstanding upload streams
  downloads,              \* outstanding merged downloads
  bulkSeq,                \* number of bulk operations requested so far
  destroyed,              \* the page component has been destroyed
  table,                  \* the fields of a DatatableComponent
  form,                   \* the key input of the folder dialog, prefixParts
                          \* and the validations of the key in progress
  fn,                     \* the latest call of a helper function: its
                          \* input and what it returned
  blockUi,                \* the blocking progress overlay: the number of
                          \* start() calls not yet followed by a stop()
  upd,                    \* a call of AdminOpsBucketService.update under way
  \* history variables (not program state)
  atDestroy,              \* the state of the page when it was destroyed
  toggleReq,              \* the listing started by the latest activation of
                          \* 'show deleted objects' (0: none so far)
  rowReq,                 \* rowReq[i]: the listing that delivered objects[i]
  reqContent,             \* reqContent[n]: the answer of the n-th listing
  lastEvent,              \* the keys of the rows of the latest expansion event
  scene,                  \* progress of "expand a, collapse, expand b"
  seqOK,                  \* every batch so far settled successfully before
                          \* the next expansion event
  last                    \* the step taken last

vars == <<objects, objectAttrsCache, objectNumVersions, loadingObjectAttrsKeys,
          pageStatus, firstLoadComplete, showDeletedObjects, listings, loadSeq,
          toggleReq,
          batches, expandSeq, rowReq, reqContent, lastEvent, scene, seqOK, last,
          variant, isBucketVersioned, versioning, bucketVersioned, dialog,
          deletes, uploads, downloads, bulkSeq, destroyed, atDestroy,
          table, form, fn, blockUi, upd>>

listVars == <<objects, objectNumVersions, pageStatus, firstLoadComplete,
              showDeletedObjects, toggleReq, listings, loadSeq, rowReq,
              reqContent>>
attrVars == <<objectAttrsCache, loadingObjectAttrsKeys, batches, expandSeq,
              lastEvent, scene, seqOK>>
initVars == <<variant, isBucketVersioned, versioning, bucketVersioned>>
\* the life cycle of the page and what is explored apart from the page
lifeVars == <<destroyed, atDestroy>>
svcVars == <<blockUi, upd>>
sideVars == <<table, form, fn, svcVars>>
extVars == <<lifeVars, sideVars>>
bulkVars == <<initVars, extVars, dialog, deletes, uploads, downloads, bulkSeq>>

\* History of the scenario "an event expands one row a, the next one
\* collapses it, the next one expands one other row b", without a reload
\* in between: phase 3 once the three events have happened in this order.
\* since: the number of the last expansion event before the latest reload
\* when batches were outstanding at that reload (they are stale), else 0;
\* race: "overlap" once an expansion event has occurred while a batch
\* issued since the latest reload was outstanding, "failed" once a fetch of
\* such a batch has failed.
NoScene == [phase |-> 0, a |-> "", since |-> 0, race |-> "none"]
SceneNext(sc, keys) ==
  IF Len(keys) = 1 /\ sc.phase = 2 /\ keys[1] # sc.a THEN [sc EXCEPT !.phase = 3]
  ELSE IF Len(keys) = 1 THEN [sc EXCEPT !.phase = 1, !.a = keys[1]]
  ELSE IF keys = << >> /\ sc.phase = 1 THEN [sc EXCEPT !.phase = 2]
  ELSE [sc EXCEPT !.phase = 0, !.a = ""]

\* The step taken last: its kind, the listing or batch it belongs to, the
\* number of listing calls it issued and whether the listing (batch) had
\* delivered rows (records) before.  For the completion of a listing,
\* added is what the emissions of that listing have added to
\* objectNumVersions; for the settling of a batch, wrote tells whether the
\* step has changed objectAttrsCache.  For an expansion event, rows are the
\* rows of the event, before the keys cached when it arrived and calls the
\* keys of the getObjectAttributes calls it issued, in the order of issue.
\* For a step of a bulk operation, note is the notification it has shown,
\* n the position of the item (the last loaded value reported) it is
\* about, total the number of items, others the other operations of the
\* batch that were running when it happened and input the message of the
\* error delivered to it.  For the 'show deleted objects' action, flag is
\* the value of showDeletedObjects before it.
NoNote == [kind |-> "none", text |-> "", args |-> << >>, error |-> ""]

Step(op, id, issued, partial) ==
  [op |-> op, id |-> id, issued |-> issued, partial |-> partial,
   added |-> EmptyMap, wrote |-> FALSE,
   rows |-> << >>, before |-> {}, calls |-> << >>,
   note |-> NoNote, n |-> 0, total |-> 0, others |-> {}, input |-> "",
   flag |-> FALSE]

\* added, after an emission with records of the keys ks has changed the
\* index from old to new
AddedBy(added, ks, old, new) ==
  [k \in (DOMAIN added) \cup ks |->
     IF k \in ks THEN GetOr(added, k, 0) + (new[k] - GetOr(old, k, 0))
     ELSE added[k]]

NoDialog == [open |-> FALSE, id |-> 0, items |-> << >>, ex |-> FALSE]

\* The fields of the component of version v after its construction
CoreInit(v) ==
  /\ variant = v
  /\ isBucketVersioned = FALSE
  /\ versioning = "none"
  /\ bucketVersioned = FALSE
  /\ dialog = NoDialog
  /\ deletes = {}
  /\ uploads = {}
  /\ downloads = {}
  /\ bulkSeq = 0
  /\ objects = << >>
  /\ objectAttrsCache = EmptyMap
  /\ objectNumVersions = EmptyMap
  /\ loadingObjectAttrsKeys = << >>
  /\ pageStatus = "none"
  /\ firstLoadComplete = FALSE
  /\ showDeletedObjects = FALSE
  /\ toggleReq = 0
  /\ listings = {}
  /\ loadSeq = 0
  /\ batches = {}
  /\ expandSeq = 0
  /\ rowReq = << >>
  /\ reqContent = << >>
  /\ lastEvent = << >>
  /\ scene = NoScene
  /\ seqOK = TRUE
  /\ last = Step("init", 0, 0, FALSE)

\* the page has not been destroyed
LifeInit ==
  /\ destroyed = FALSE
  /\ atDestroy = << >>

\* the page size of a datatable that was given none
DefaultPageSize == 25

\* The fields of a DatatableComponent after its construction and ngOnInit,
\* with columns id and val, identifier 'id', no stateId and the first
\* sortable column as sortHeader; oldRows is FALSE as long as filteredData
\* holds row objects of data
TableState(selectionType) ==
  [data |-> << >>, filteredData |-> << >>, selected |-> << >>,
   selectionType |-> selectionType, isAllRowsSelected |-> FALSE,
   oldRows |-> FALSE,
   page |-> 1, pageSize |-> DefaultPageSize,
   sortHeader |-> "id", sortDirection |-> "asc", searchFilter |-> ""]

\* no call of the key validator so far
NoValidation == [phase |-> "none"]

\* no key typed into the folder dialog, the folder prefixParts shown, the
\* dialog closed, no folder created so far
FormState(prefixParts) ==
  [prefixParts |-> prefixParts, pristine |-> TRUE, value |-> << >>,
   calls |-> 0, validation |-> NoValidation, page |-> << >>,
   open |-> FALSE, folders |-> 0]

\* no helper function called so far
NoCall == [name |-> "", input |-> [kind |-> "none"], output |-> [kind |-> "none"],
           via |-> [kind |-> "none"]]

\* no call of AdminOpsBucketService.update has been made
NoUpdate == [phase |-> "none"]

\* the overlay is not shown, no update is under way
SvcInit ==
  /\ blockUi = 0
  /\ upd = NoUpdate

SideInit ==
  /\ table = TableState("multi")
  /\ form = FormState(<< >>)
  /\ fn = NoCall
  /\ SvcInit

ExtInit ==
  /\ LifeInit
  /\ SideInit

\* The state after the construction of the component of version v
InitState(v) ==
  /\ ExtInit
  /\ CoreInit(v)

Init == InitState("frontend")

Variants == {"frontend", "app"}
InitBulk == \E v \in Variants : InitState(v)

\* ---------------------------------------------------------------------
\* loadData and the handlers of its listing subscription
\* ---------------------------------------------------------------------
\* faulty variant of CountVersions: the latest record of a key is not counted
RECURSIVE CountVersionsSkipLatest(_, _)
CountVersionsSkipLatest(index, page) ==
  IF page = << >> THEN index
  ELSE LET object == Head(page)
           withKey == IF ~Has(index, object.Key) THEN Put(index, object.Key, 0)
                      ELSE index
           counted == IF IsObjectVersionID(object.VersionId, TRUE) /\ ~object.IsLatest
                      THEN Put(withKey, object.Key, withKey[object.Key] + 1)
                      ELSE withKey
       IN CountVersionsSkipLatest(counted, Tail(page))

\* "Cache the number of versions per object": the _.forEach of the next
\* handler, applied to the records of one emission.
RECURSIVE CountVersions(_, _)
CountVersions(index, page) ==
  IF page = << >> THEN index
  ELSE LET object == Head(page)
           withKey == IF ~Has(index, object.Key) THEN Put(index, object.Key, 0)
                      ELSE index
           counted == IF IsObjectVersionID(object.VersionId, TRUE)
                      THEN Put(withKey, object.Key, withKey[object.Key] + 1)
                      ELSE withKey
       IN CountVersions(counted, Tail(page))

IsLatestLive(r) == r.IsLatest = TRUE /\ r.IsDeleted = FALSE
IsLatestDeleted(r) == r.IsLatest = TRUE /\ r.IsDeleted = TRUE

\* newObjects of the next handler: the latest non-deleted records of the
\* emission, followed by its latest deleted ones if the flag is set.
NewObjects(page, showDeleted) ==
  SelectSeq(page, IsLatestLive) \o
    (IF showDeleted THEN SelectSeq(page, IsLatestDeleted) ELSE << >>)

\* faulty variant of ErrorRows: the error handler keeps the rows received so far
ErrorRowsKept(rows) == rows

\* the row set the error handler of the listing leaves behind
ErrorRows(rows) == << >>

\* The body of loadData(); content is the answer the new listing call is
\* going to deliver.
LoadDataCall(content) ==
  /\ objects' = << >>
  /\ rowReq' = << >>
  /\ objectAttrsCache' = EmptyMap
  /\ objectNumVersions' = EmptyMap
  /\ pageStatus' = IF ~firstLoadComplete THEN "loading" ELSE "reloading"
  /\ loadSeq' = loadSeq + 1
  /\ listings' = listings \cup {[id |-> loadSeq + 1, pos |-> 0, added |-> EmptyMap]}
  /\ reqContent' = Append(reqContent, content)
  /\ scene' = [NoScene EXCEPT !.since = IF batches = {} THEN 0 ELSE expandSeq]

LoadDataBody(content) ==
  /\ LoadDataCall(content)
  /\ last' = Step("loadData", loadSeq + 1, 1, FALSE)

\* loadData() called by a reload of the datatable (auto-reload timer,
\* prefix navigation, row navigation).
LoadData(maxLoads, maxOps) ==
  /\ loadSeq < maxLoads
  /\ loadSeq + expandSeq < maxOps
  /\ \E content \in Listings : LoadDataBody(content)
  /\ UNCHANGED <<firstLoadComplete, showDeletedObjects, toggleReq,
                 loadingObjectAttrsKeys,
                 batches, expandSeq, lastEvent, seqOK, bulkVars>>

\* faulty variant of ToggleFlag: the flag keeps its value
ToggleFlagKept(flag) == flag

\* this.showDeletedObjects = !this.showDeletedObjects
ToggleFlag(flag) == ~flag

\* The 'show deleted objects' action: flips the flag, then
\* table.reloadData() emits the loadData event of the datatable, which
\* calls loadData().
ToggleShowDeleted(maxLoads, maxOps) ==
  /\ loadSeq < maxLoads
  /\ loadSeq + expandSeq < maxOps
  /\ showDeletedObjects' = ToggleFlag(showDeletedObjects)
  /\ toggleReq' = loadSeq + 1
  /\ \E content \in Listings : LoadDataCall(content)
  /\ last' = [Step("toggleShowDeleted", loadSeq + 1, loadSeq' - loadSeq, FALSE)
                EXCEPT !.flag = showDeletedObjects]
  /\ UNCHANGED <<firstLoadComplete, loadingObjectAttrsKeys,
                 batches, expandSeq, lastEvent, seqOK, bulkVars>>

\* the records listing l has not delivered yet, and its next page
Remaining(l) == Len(reqContent[l.id]) - l.pos
PageLen(l) == Min(MaxPage, Remaining(l))
PageOf(l) == SubSeq(reqContent[l.id], l.pos + 1, l.pos + PageLen(l))

\* next: one emission (the next page) of an outstanding listing.
ListNext(l) ==
  /\ l \in listings
  /\ Remaining(l) > 0
  /\ LET page == PageOf(l)
         newObjects == NewObjects(page, showDeletedObjects)
         counted == CountVersions(objectNumVersions, page)
     IN /\ objectNumVersions' = counted
        /\ objects' = objects \o newObjects
        /\ rowReq' = rowReq \o [i \in 1..Len(newObjects) |-> l.id]
        /\ listings' = (listings \ {l}) \cup
             {[l EXCEPT !.pos = l.pos + PageLen(l),
                        !.added = AddedBy(l.added, KeysOf(page), objectNumVersions, counted)]}
  /\ last' = Step("listNext", l.id, 0, FALSE)
  /\ UNCHANGED <<pageStatus, firstLoadComplete, showDeletedObjects, toggleReq, loadSeq,
                 reqContent, attrVars, bulkVars>>

\* complete: the listing has delivered everything; then finalize.
ListComplete(l) ==
  /\ l \in listings
  /\ Remaining(l) = 0
  /\ pageStatus' = "ready"
  /\ firstLoadComplete' = TRUE
  /\ listings' = listings \ {l}
  /\ last' = [Step("listComplete", l.id, 0, FALSE) EXCEPT !.added = l.added]
  /\ UNCHANGED <<objects, rowReq, objectNumVersions, showDeletedObjects, toggleReq, loadSeq,
                 reqContent, attrVars, bulkVars>>

\* error: the listing call fails (at any point); then finalize.
ListError(l) ==
  /\ l \in listings
  /\ objects' = ErrorRows(objects)
  /\ rowReq' = [i \in 1..Len(objects') |-> rowReq[i]]
  /\ pageStatus' = "loadingError"
  /\ firstLoadComplete' = TRUE
  /\ listings' = listings \ {l}
  /\ last' = Step("listError", l.id, 0, \E i \in DOMAIN objects : rowReq[i] = l.id)
  /\ UNCHANGED <<objectNumVersions, showDeletedObjects, toggleReq, loadSeq,
                 reqContent, attrVars, bulkVars>>


\* ---------------------------------------------------------------------
\* onExpandedRowsChange and the handlers of its forkJoin subscription
\* ---------------------------------------------------------------------
\* The attribute record getObjectAttributes delivers for a key: the lock
\* and tag fields are optional in the answer of the storage API.
RemoteAttrs(key) ==
  IF key = "A"
  THEN [ObjectLockMode |-> "COMPLIANCE",
        ObjectLockRetainUntilDate |-> "2030-01-01T00:00:00Z",
        ObjectLockLegalHoldStatus |-> "ON",
        TagSet |-> <<"t1">>]
  ELSE [k \in {} |-> 0]

\* _.defaultTo(rec[field], d)
DefaultTo(rec, field, d) == IF field \in DOMAIN rec THEN rec[field] ELSE d

\* localeDatePipe.transform(value, 'datetime')
LocaleDate(v) ==
  IF v = "2030-01-01T00:00:00Z" THEN "1/1/30, 12:00 AM" ELSE v

\* the lock and tag fields merged into a fetched attribute record
FetchedAttrs(objAttr) ==
  [ObjectLockMode |-> DefaultTo(objAttr, "ObjectLockMode", "NONE"),
   ObjectLockRetainUntilDate |->
     LocaleDate(DefaultTo(objAttr, "ObjectLockRetainUntilDate", "")),
   ObjectLockLegalHoldStatus |-> DefaultTo(objAttr, "ObjectLockLegalHoldStatus", "OFF"),
   TagSet |-> DefaultTo(objAttr, "TagSet", << >>)]

\* faulty variant of SynthAttrs: the lock mode is left out
SynthAttrsNoMode(object) ==
  [ObjectLockMode |-> "",
   ObjectLockRetainUntilDate |-> "",
   ObjectLockLegalHoldStatus |-> "OFF",
   TagSet |-> << >>]

\* the lock and tag fields of the entry synthesized for a deleted row
SynthAttrs(object) ==
  [ObjectLockMode |-> "NONE",
   ObjectLockRetainUntilDate |-> "",
   ObjectLockLegalHoldStatus |-> "OFF",
   TagSet |-> << >>]

\* An entry of objectAttrsCache.  src is a history field: how the entry
\* was made ("synth" locally, "fetched" remotely).
Entry(object, attrs, numVersions, src) ==
  [Key |-> object.Key,
   ObjectLockMode |-> attrs.ObjectLockMode,
   ObjectLockRetainUntilDate |-> attrs.ObjectLockRetainUntilDate,
   ObjectLockLegalHoldStatus |-> attrs.ObjectLockLegalHoldStatus,
   TagSet |-> attrs.TagSet,
   NumVersions |-> numVersions, IsDeleted |-> object.IsDeleted,
   src |-> src]

\* The _.forEach over the rows of the event: collects the keys that are
\* not cached yet, synthesizes the entries of deleted rows and collects
\* one getObjectAttributes call (source) per other row.
RECURSIVE ExpandScan(_, _, _, _)
ExpandScan(rows, cache, loading, sources) ==
  IF rows = << >> THEN [cache |-> cache, loading |-> loading, sources |-> sources]
  ELSE LET object == Head(rows)
           key == object.Key
       IN IF Has(cache, key)
          THEN ExpandScan(Tail(rows), cache, loading, sources)
          ELSE IF object.IsDeleted
               THEN ExpandScan(Tail(rows),
                      Put(cache, key,
                          Entry(object, SynthAttrs(object),
                                GetOr(objectNumVersions, key, Undefined), "synth")),
                      Append(loading, key), sources)
               ELSE ExpandScan(Tail(rows), cache, Append(loading, key),
                               Append(sources, key))

\* _.find(objects, ['Key', key]): the first row of the event with the key
FindRow(rows, key) ==
  LET idx == {i \in DOMAIN rows : rows[i].Key = key}
  IN rows[CHOOSE i \in idx : \A j \in idx : i <= j]

\* The _.forEach over the fetched attribute records objAttrs (one per
\* source listed in srcIdx, in that order): each is merged with its row
\* and written to the cache.
RECURSIVE MergeResults(_, _, _)
MergeResults(cache, b, srcIdx) ==
  IF srcIdx = << >> THEN cache
  ELSE LET key == b.sources[Head(srcIdx)]
           object == FindRow(b.objects, key)
       IN MergeResults(
            Put(cache, key,
                Entry(object, FetchedAttrs(RemoteAttrs(key)),
                      GetOr(objectNumVersions, key, Undefined), "fetched")),
            b, Tail(srcIdx))

\* "Purge collapsed rows": _.pickBy keeps the keys of the rows of the event
PurgeCollapsed(cache, rows) == PickKeys(cache, KeysOf(rows))

\* the next handler of forkJoin: all sources have delivered
BatchDoneCache(cache, b) ==
  PurgeCollapsed(MergeResults(cache, b, [i \in 1..Len(b.sources) |-> i]), b.objects)

RECURSIVE SetToSeq(_)
SetToSeq(S) ==
  IF S = {} THEN << >>
  ELSE LET m == CHOOSE x \in S : \A y \in S : x <= y
       IN <<m>> \o SetToSeq(S \ {m})

\* faulty variant of BatchFailCache: the results delivered so far are merged
BatchFailCachePartial(cache, b) ==
  PurgeCollapsed(MergeResults(cache, b, SetToSeq(b.done)), b.objects)

\* forkJoin fails as soon as one source fails: next is never called
BatchFailCache(cache, b) == cache

\* the rows an expansion event can carry: expandable rows (Type OBJECT)
\* of the displayed row set, in display order
ExpandEventsUpTo(maxRows) ==
  { [i \in 1..Len(SetToSeq(S)) |-> objects[SetToSeq(S)[i]]] :
      S \in { T \in SUBSET (DOMAIN objects) :
                /\ Cardinality(T) <= maxRows
                /\ \A i \in T : objects[i].Type = "OBJECT" } }

ExpandEvents == ExpandEventsUpTo(MaxExpand)

KeySeq(rows) == [i \in DOMAIN rows |-> rows[i].Key]

OnExpandedRowsChange(ev, maxOps) ==
  /\ loadSeq + expandSeq < maxOps
  /\ LET id == expandSeq + 1
         scan == ExpandScan(ev, objectAttrsCache, << >>, << >>)
     IN /\ objectAttrsCache' = scan.cache
        /\ IF scan.sources = << >>
           THEN \* forkJoin([]) completes at once: finalize, no next
                /\ loadingObjectAttrsKeys' = << >>
                /\ batches' = batches
           ELSE /\ loadingObjectAttrsKeys' = scan.loading
                /\ batches' = batches \cup
                     {[id |-> id, objects |-> ev, sources |-> scan.sources, done |-> {}]}
        /\ expandSeq' = id
        /\ lastEvent' = KeySeq(ev)
        /\ scene' = [SceneNext(scene, KeySeq(ev)) EXCEPT
                       !.race = IF scene.race = "none" /\ \E b \in batches : b.id > scene.since
                                THEN "overlap" ELSE scene.race]
        /\ seqOK' = (seqOK /\ batches = {})
        /\ last' = [Step("expand", id, 0, FALSE)
                      EXCEPT !.rows = ev, !.before = DOMAIN objectAttrsCache,
                             !.calls = scan.sources]
  /\ UNCHANGED <<listVars, bulkVars>>

\* One getObjectAttributes call of a batch delivers its record.  When it
\* is the last one, forkJoin emits the records: next, then finalize.
FetchSucceed(b, i) ==
  /\ b \in batches
  /\ i \in (1..Len(b.sources)) \ b.done
  /\ IF b.done \cup {i} = 1..Len(b.sources)
     THEN /\ objectAttrsCache' = BatchDoneCache(objectAttrsCache, b)
          /\ loadingObjectAttrsKeys' = << >>
          /\ batches' = batches \ {b}
          /\ last' = [Step("batchDone", b.id, 0, FALSE)
                        EXCEPT !.wrote = (objectAttrsCache' # objectAttrsCache),
                               !.before = DOMAIN objectAttrsCache]
     ELSE /\ batches' = (batches \ {b}) \cup {[b EXCEPT !.done = b.done \cup {i}]}
          /\ last' = Step("fetched", b.id, 0, FALSE)
          /\ UNCHANGED <<objectAttrsCache, loadingObjectAttrsKeys>>
  /\ UNCHANGED <<expandSeq, lastEvent, scene, seqOK, listVars, bulkVars>>

\* One getObjectAttributes call of a batch fails: forkJoin fails, the
\* other calls are unsubscribed; finalize.
FetchFail(b, i) ==
  /\ b \in batches
  /\ i \in (1..Len(b.sources)) \ b.done
  /\ objectAttrsCache' = BatchFailCache(objectAttrsCache, b)
  /\ loadingObjectAttrsKeys' = << >>
  /\ batches' = batches \ {b}
  /\ seqOK' = FALSE
  /\ scene' = [scene EXCEPT !.race = IF b.id > scene.since THEN "failed" ELSE scene.race]
  /\ last' = [Step("batchFail", b.id, 0, b.done # {})
                EXCEPT !.wrote = (objectAttrsCache' # objectAttrsCache)]
  /\ UNCHANGED <<expandSeq, lastEvent, listVars, bulkVars>>

\* ---------------------------------------------------------------------
\* The older component: loadData and the next handler of its listing
\* ---------------------------------------------------------------------
\* the answers listObjects can give (records without version fields:
\* VersionId, IsLatest and IsDeleted are not read by the older component)
AppListings == { <<C0, F0>> }

reloadVars == <<objects, rowReq, objectAttrsCache, objectNumVersions, pageStatus,
                loadSeq, listings, reqContent, scene>>
restVars == <<firstLoadComplete, showDeletedObjects, toggleReq,
              loadingObjectAttrsKeys,
              batches, expandSeq, lastEvent, seqOK>>

LoadDataAppCall(content) ==
  /\ objects' = << >>
  /\ rowReq' = << >>
  /\ pageStatus' = IF ~firstLoadComplete THEN "loading" ELSE "reloading"
  /\ loadSeq' = loadSeq + 1
  /\ listings' = listings \cup {[id |-> loadSeq + 1, pos |-> 0, added |-> EmptyMap]}
  /\ reqContent' = Append(reqContent, content)
  /\ UNCHANGED <<objectAttrsCache, objectNumVersions, scene>>

\* next: the rows of the emission are appended as they are
ListNextApp(l) ==
  /\ l \in listings
  /\ Remaining(l) > 0
  /\ objects' = objects \o PageOf(l)
  /\ rowReq' = rowReq \o [i \in 1..PageLen(l) |-> l.id]
  /\ listings' = (listings \ {l}) \cup {[l EXCEPT !.pos = l.pos + PageLen(l)]}
  /\ last' = Step("listNext", l.id, 0, FALSE)
  /\ UNCHANGED <<objectNumVersions, pageStatus, firstLoadComplete, showDeletedObjects,
                 toggleReq,
                 loadSeq, reqContent, attrVars, bulkVars>>

\* the answer of listObjectVersions while bulk operations are explored
BulkListings == { <<A3, B1, C0, F0>> }

\* this.loadData() as called by a handler of a bulk operation
Reload ==
  IF variant = "frontend"
  THEN \E content \in BulkListings : LoadDataCall(content)
  ELSE \E content \in AppListings : LoadDataAppCall(content)

\* the loadData calls that the bulk operations under way are going to make
Reserved ==
  Cardinality(deletes) + Cardinality(uploads) + (IF dialog.open THEN 1 ELSE 0)

\* loadData() called by a reload of the datatable
LoadDataBulk(maxLoads) ==
  /\ loadSeq + Reserved < maxLoads
  /\ Reload
  /\ last' = Step("loadData", loadSeq + 1, 1, FALSE)
  /\ UNCHANGED <<restVars, bulkVars>>

\* ---------------------------------------------------------------------
\* ngOnInit: the getVersioning call
\* ---------------------------------------------------------------------
\* The route delivers the bucket id.  The frontend component asks the
\* storage whether the bucket is versioned; the older one does not.
NgOnInit ==
  /\ versioning = "none"
  /\ IF variant = "frontend"
     THEN /\ versioning' = "pending"
          /\ bucketVersioned' \in BOOLEAN
     ELSE /\ versioning' = "unused"
          /\ bucketVersioned' = FALSE
  /\ last' = Step("ngOnInit", 0, 0, FALSE)
  /\ UNCHANGED <<listVars, attrVars, extVars, variant, isBucketVersioned, dialog, deletes,
                 uploads, downloads, bulkSeq>>

\* next of getVersioning: (res) => this.isBucketVersioned = res
GetVersioningNext ==
  /\ versioning = "pending"
  /\ isBucketVersioned' = bucketVersioned
  /\ versioning' = "done"
  /\ last' = Step("getVersioningNext", 0, 0, FALSE)
  /\ UNCHANGED <<listVars, attrVars, extVars, variant, bucketVersioned, dialog, deletes,
                 uploads, downloads, bulkSeq>>

\* getVersioning fails: the subscription has no error handler
GetVersioningError ==
  /\ versioning = "pending"
  /\ versioning' = "failed"
  /\ last' = Step("getVersioningError", 0, 0, FALSE)
  /\ UNCHANGED <<listVars, attrVars, extVars, variant, isBucketVersioned, bucketVersioned,
                 dialog, deletes, uploads, downloads, bulkSeq>>

\* ---------------------------------------------------------------------
\* doDelete
\* ---------------------------------------------------------------------
\* the rows a bulk action can be called with: a selection of displayed
\* rows none of which is deleted
Selections(maxRows) ==
  { [i \in 1..Len(SetToSeq(S)) |-> objects[SetToSeq(S)[i]]] :
      S \in { T \in SUBSET (DOMAIN objects) :
                /\ T # {}
                /\ Cardinality(T) <= maxRows
                /\ \A i \in T : ~objects[i].IsDeleted } }

Delimiter == "/"

\* faulty variant of DeleteSourceFE: folders are always deleted with all versions
DeleteSourceFolderAll(item, allVersions) ==
  IF item.Type = "FOLDER"
  THEN [fn |-> "deleteObjectByPrefix", arg |-> <<item.Key, Delimiter>>,
        allVersions |-> TRUE]
  ELSE [fn |-> "deleteObject", arg |-> <<item.Key>>, allVersions |-> allVersions]

\* The switch of callbackFn: the remote call made for one selected row.
\* arg is the key or prefix handed over, as the pieces it is joined from.
DeleteSourceFE(item, allVersions) ==
  IF item.Type = "FOLDER"
  THEN [fn |-> "deleteObjectByPrefix", arg |-> <<item.Key, Delimiter>>,
        allVersions |-> allVersions]
  ELSE [fn |-> "deleteObject", arg |-> <<item.Key>>, allVersions |-> allVersions]

\* The same switch of the older component (its calls have no allVersions
\* parameter: FALSE)
DeleteSourceApp(item) ==
  IF item.Type = "FOLDER"
  THEN [fn |-> "deleteObjects", arg |-> <<item.Key>>, allVersions |-> FALSE]
  ELSE [fn |-> "deleteObject", arg |-> <<item.Key>>, allVersions |-> FALSE]

DeleteSources(items, allVersions) ==
  [i \in DOMAIN items |->
     IF variant = "frontend" THEN DeleteSourceFE(items[i], allVersions)
     ELSE DeleteSourceApp(items[i])]

\* faulty variant of ConcatStarted: all sources are subscribed at once
ConcatStartedAll(n, done) == 1..n

\* rxjsUiHelperService.concat: the sources that have been subscribed once
\* the sources in done have completed; a source is subscribed when all
\* sources before it have completed.
ConcatStarted(n, done) == {i \in 1..n : \A j \in 1..(i - 1) : j \in done}

\* doDelete opens the confirmation dialog: the extended one if the page
\* regards the bucket as versioned.
DoDelete(maxRows, maxBulk, maxLoads) ==
  /\ versioning # "none"
  /\ ~dialog.open
  /\ bulkSeq < maxBulk
  /\ loadSeq + Reserved < maxLoads
  /\ \E items \in Selections(maxRows) :
       dialog' = [open |-> TRUE, id |-> bulkSeq + 1, items |-> items,
                  ex |-> (variant = "frontend" /\ isBucketVersioned)]
  /\ bulkSeq' = bulkSeq + 1
  /\ last' = Step("doDelete", bulkSeq + 1, 0, FALSE)
  /\ UNCHANGED <<listVars, attrVars, initVars, extVars, deletes, uploads, downloads>>

\* The user confirms: callbackFn(allVersions) builds the sources and
\* subscribes to their sequence.  The plain dialog calls callbackFn(false).
ConfirmDelete(allVersions) ==
  /\ dialog.open
  /\ dialog.ex \/ ~allVersions
  /\ LET sources == DeleteSources(dialog.items, allVersions)
     IN deletes' = deletes \cup
          {[id |-> dialog.id, items |-> dialog.items, sources |-> sources,
            allVersions |-> allVersions, ex |-> dialog.ex,
            started |-> ConcatStarted(Len(sources), {}), done |-> {}]}
  /\ dialog' = NoDialog
  /\ last' = Step("confirmDelete", dialog.id, 0, FALSE)
  /\ UNCHANGED <<listVars, attrVars, initVars, extVars, uploads, downloads, bulkSeq>>

\* The user dismisses the dialog.
CancelDelete ==
  /\ dialog.open
  /\ dialog' = NoDialog
  /\ last' = Step("cancelDelete", dialog.id, 0, FALSE)
  /\ UNCHANGED <<listVars, attrVars, initVars, extVars, deletes, uploads, downloads, bulkSeq>>

\* The running delete i of sequence b completes.  If it was the last one,
\* the sequence completes: complete: () => this.loadData().
DeleteOpDone(b, i) ==
  /\ b \in deletes
  /\ i \in b.started \ b.done
  /\ LET done == b.done \cup {i}
         n == Len(b.sources)
     IN IF done = 1..n
        THEN /\ deletes' = deletes \ {b}
             /\ Reload
             /\ last' = [Step("deleteComplete", b.id, 1, FALSE) EXCEPT !.total = n]
             /\ UNCHANGED restVars
        ELSE /\ deletes' = (deletes \ {b}) \cup
                  {[b EXCEPT !.done = done, !.started = ConcatStarted(n, done)]}
             /\ last' = [Step("deleteNext", b.id, 0, FALSE) EXCEPT !.n = i, !.total = n]
             /\ UNCHANGED <<reloadVars, restVars>>
  /\ UNCHANGED <<initVars, extVars, dialog, uploads, downloads, bulkSeq>>

\* The running delete i of sequence b fails: the sequence ends with the
\* error, the sources after i are never subscribed; the subscription of
\* doDelete has no error handler.
DeleteOpFail(b, i) ==
  /\ b \in deletes
  /\ i \in b.started \ b.done
  /\ deletes' = deletes \ {b}
  /\ last' = [Step("deleteFail", b.id, 0, b.done # {})
                EXCEPT !.n = i, !.total = Len(b.sources),
                       !.others = b.started \ {i}]
  /\ UNCHANGED <<reloadVars, restVars, initVars, extVars, dialog, uploads, downloads, bulkSeq>>

\* ---------------------------------------------------------------------
\* doDownload
\* ---------------------------------------------------------------------
\* merge(...sources).subscribe(): all sources are subscribed at once
MergeStarted(n) == 1..n

DoDownload(maxRows, maxBulk) ==
  /\ bulkSeq < maxBulk
  /\ \E items \in Selections(maxRows) :
       downloads' = downloads \cup
         {[id |-> bulkSeq + 1, keys |-> KeySeq(items),
           started |-> MergeStarted(Len(items)), done |-> {}]}
  /\ bulkSeq' = bulkSeq + 1
  /\ last' = Step("doDownload", bulkSeq + 1, 0, FALSE)
  /\ UNCHANGED <<listVars, attrVars, initVars, extVars, dialog, deletes, uploads>>

\* Download i of the merged downloads d completes; with the last one the
\* merged stream completes.
DownloadDone(d, i) ==
  /\ d \in downloads
  /\ i \in d.started \ d.done
  /\ IF d.done \cup {i} = 1..Len(d.keys)
     THEN /\ downloads' = downloads \ {d}
          /\ last' = [Step("downloadComplete", d.id, 0, FALSE)
                        EXCEPT !.n = i, !.total = Len(d.keys)]
     ELSE /\ downloads' = (downloads \ {d}) \cup {[d EXCEPT !.done = d.done \cup {i}]}
          /\ last' = [Step("downloaded", d.id, 0, FALSE)
                        EXCEPT !.n = i, !.total = Len(d.keys)]
  /\ UNCHANGED <<listVars, attrVars, initVars, extVars, dialog, deletes, uploads, bulkSeq>>

\* Download i of the merged downloads d fails: the merged stream fails
\* and unsubscribes from the downloads that are still running (others).
DownloadFail(d, i) ==
  /\ d \in downloads
  /\ i \in d.started \ d.done
  /\ downloads' = downloads \ {d}
  /\ last' = [Step("downloadFail", d.id, 0, d.done # {})
                EXCEPT !.n = i, !.total = Len(d.keys),
                       !.others = d.started \ (d.done \cup {i})]
  /\ UNCHANGED <<listVars, attrVars, initVars, extVars, dialog, deletes, uploads, bulkSeq>>

\* ---------------------------------------------------------------------
\* doUpload
\* ---------------------------------------------------------------------
\* the messages of the errors an upload stream can fail with
ErrMessages == {"Forbidden", "Network error"}

AllUploaded == "{{ total }} object(s) have been successfully uploaded."
PartlyUploaded == "{{ loaded }} of {{ total }} object(s) have been successfully uploaded."
UploadFailed == "Failed to upload the objects: {{ error }}"

\* translate(message, {loaded, total}): a notification with the template
\* and the values of its placeholders, in the order of their appearance
AllNote(total) ==
  [kind |-> "success", text |-> AllUploaded, args |-> <<total>>, error |-> ""]
PartNote(loaded, total) ==
  [kind |-> "success", text |-> PartlyUploaded, args |-> <<loaded, total>>, error |-> ""]

\* the success notification of the complete handler
UploadMessageFE(loaded, total) ==
  IF loaded = total THEN AllNote(total) ELSE PartNote(loaded, total)

\* the same of the older component
UploadMessageApp(total) == AllNote(total)

\* faulty variant of ErrorNote: the message of the error is dropped
ErrorNoteGeneric(err) ==
  [kind |-> "error", text |-> UploadFailed, args |-> << >>, error |-> ""]

\* the error notification of the error handler
ErrorNote(err) ==
  [kind |-> "error", text |-> UploadFailed, args |-> << >>, error |-> err]

\* blockUiService.start() ... finalize(() => blockUiService.stop()): the
\* page takes no user input while an upload stream is running
Blocked == blockUi > 0

\* this.blockUiService.start(...) (this.blockUI.start in the older version)
BlockUiStart(count) == count + 1

\* faulty variant of BlockUiAfter: the overlay is stopped by complete only
BlockUiAfterCompleteOnly(count, how) ==
  IF how = "complete" THEN count - 1 ELSE count

\* finalize(() => this.blockUiService.stop()): the stream has settled, how
\* is "complete", "error" or "unsubscribe"
BlockUiAfter(count, how) == count - 1

\* doUpload with a list of total files: subscribes to the upload stream;
\* loaded is the variable of that name of the frontend component.
DoUpload(maxFiles, maxBulk, maxLoads) ==
  /\ bulkSeq < maxBulk
  /\ loadSeq + Reserved < maxLoads
  /\ \E total \in 0..maxFiles :
       uploads' = uploads \cup
         {[id |-> bulkSeq + 1, total |-> total, loaded |-> 0, sent |-> 0]}
  /\ bulkSeq' = bulkSeq + 1
  /\ blockUi' = BlockUiStart(blockUi)
  /\ last' = Step("doUpload", bulkSeq + 1, 0, FALSE)
  /\ UNCHANGED <<listVars, attrVars, initVars, lifeVars, table, form, fn, upd,
                 dialog, deletes, downloads>>

\* next: the stream reports that one more file has been uploaded
UploadProgress(u) ==
  /\ u \in uploads
  /\ u.sent < u.total
  /\ uploads' = (uploads \ {u}) \cup
       {[u EXCEPT !.sent = u.sent + 1,
                  !.loaded = IF variant = "frontend" THEN u.sent + 1 ELSE u.loaded]}
  /\ last' = [Step("uploadProgress", u.id, 0, FALSE)
                EXCEPT !.n = u.sent + 1, !.total = u.total]
  /\ UNCHANGED <<listVars, attrVars, initVars, extVars, dialog, deletes, downloads, bulkSeq>>

\* complete: the stream ends, with all or only part of the files
\* uploaded; success notification, then this.loadData().
UploadComplete(u) ==
  /\ u \in uploads
  /\ uploads' = uploads \ {u}
  /\ Reload
  /\ last' = [Step("uploadComplete", u.id, 1, u.sent < u.total)
                EXCEPT !.n = u.sent, !.total = u.total,
                       !.note = IF variant = "frontend"
                                THEN UploadMessageFE(u.loaded, u.total)
                                ELSE UploadMessageApp(u.total)]
  /\ blockUi' = BlockUiAfter(blockUi, "complete")
  /\ UNCHANGED <<restVars, initVars, lifeVars, table, form, fn, upd, dialog,
                 deletes, downloads, bulkSeq>>

\* error: the stream fails with an error of message err (the upload of
\* file sent + 1 throws); error notification.
UploadError(u, err) ==
  /\ u \in uploads
  /\ uploads' = uploads \ {u}
  /\ blockUi' = BlockUiAfter(blockUi, "error")
  /\ UNCHANGED <<reloadVars, restVars, initVars, lifeVars, table, form, fn, upd,
                 dialog, deletes, downloads, bulkSeq>>
  /\ last' = [Step("uploadError", u.id, loadSeq' - loadSeq, u.sent > 0)
                EXCEPT !.n = u.sent, !.total = u.total, !.input = err,
                       !.note = ErrorNote(err),
                       !.wrote = (<<objects, objectAttrsCache, objectNumVersions, listings>>'
                                    # <<objects, objectAttrsCache, objectNumVersions, listings>>)]

\* ---------------------------------------------------------------------
\* The destruction of the page
\* ---------------------------------------------------------------------
\* the state of the page that the handlers of its tasks write
PageState ==
  <<objects, objectAttrsCache, objectNumVersions, loadingObjectAttrsKeys,
    pageStatus, isBucketVersioned>>

\* The router leaves the page and the component is destroyed.  Neither
\* version of the component implements ngOnDestroy: the subscriptions
\* collected in this.subscriptions (the older version collects none) are
\* not unsubscribed, so every task under way stays subscribed.
NgOnDestroy ==
  /\ ~destroyed
  /\ destroyed' = TRUE
  /\ atDestroy' = PageState
  /\ last' = Step("ngOnDestroy", 0, 0, FALSE)
  /\ UNCHANGED <<listVars, attrVars, initVars, sideVars, dialog, deletes, uploads,
                 downloads, bulkSeq>>

\* ---------------------------------------------------------------------
\* DatatableComponent: data, filters and selection
\* ---------------------------------------------------------------------
\* the rows a page can hand to the datatable: an identifier and a value
TableIds == {1, 2}
TableVals == {1, 2}
TableRows == {r \in [id : TableIds, val : TableVals] : r.id = 1 \/ r.val = 1}

\* the row lists of at most n rows
TableData(n) == UNION { [1..k -> TableRows] : k \in 0..n }

\* the texts typed into the search field
SearchFilters == {"", "1"}

\* the pages and the page sizes the paginator offers
Pages == {1, 2}
PageSizes == {1, DefaultPageSize}

\* _.get(o, prop) for the columns id and val
CellValue(r, prop) == IF prop = "id" THEN r.id ELSE r.val

\* _.orderBy(data, [sortHeader], [sortDirection]): a stable sort
ComesBefore(x, y, prop, dir) ==
  IF dir = "asc" THEN CellValue(x, prop) < CellValue(y, prop)
  ELSE CellValue(x, prop) > CellValue(y, prop)

InsertOrdered(sorted, x, prop, dir) ==
  LET later == {i \in DOMAIN sorted : ComesBefore(x, sorted[i], prop, dir)}
      at == IF later = {} THEN Len(sorted) + 1
            ELSE CHOOSE i \in later : \A j \in later : i <= j
  IN SubSeq(sorted, 1, at - 1) \o <<x>> \o SubSeq(sorted, at, Len(sorted))

RECURSIVE OrderBy(_, _, _)
OrderBy(data, prop, dir) ==
  IF data = << >> THEN << >>
  ELSE InsertOrdered(OrderBy(SubSeq(data, 1, Len(data) - 1), prop, dir),
                     data[Len(data)], prop, dir)

\* .slice((page - 1) * pageSize, (page - 1) * pageSize + pageSize)
PageSlice(rows, page, pageSize) ==
  SubSeq(rows, (page - 1) * pageSize + 1, Min(Len(rows), (page - 1) * pageSize + pageSize))

\* _.includes(_.lowerCase(value), _.lowerCase(searchFilter)) for some
\* column; the values of the cells are single digits
MatchesSearch(r, filter) ==
  \E prop \in {"id", "val"} :
    filter = "" \/ ToString(CellValue(r, prop)) = filter

\* applyFilters(): the list is computed from the row objects of data and
\* replaces filteredData unless the two are equal field by field; then
\* filteredData keeps the row objects it has. oldRows tells that these are
\* the objects of a data array that has been replaced since.
ApplyFilters(t) ==
  LET filteredData ==
        SelectSeq(PageSlice(OrderBy(t.data, t.sortHeader, t.sortDirection),
                            t.page, t.pageSize),
                  LAMBDA r : MatchesSearch(r, t.searchFilter))
  IN IF Len(filteredData) # Len(t.filteredData) \/ filteredData # t.filteredData
     THEN [t EXCEPT !.filteredData = filteredData, !.oldRows = FALSE]
     ELSE t

\* updateIsAllRowsSelected()
UpdateIsAllRowsSelected(t) ==
  [t EXCEPT !.isAllRowsSelected =
     Len(t.selected) > 0 /\ Len(t.selected) = Len(t.filteredData)]

\* _.find(filteredData, [identifier, id]): the first row of that identifier
HasId(rows, id) == \E i \in DOMAIN rows : rows[i].id = id
FindById(rows, id) ==
  rows[CHOOSE i \in DOMAIN rows :
         rows[i].id = id /\ \A j \in DOMAIN rows : rows[j].id = id => i <= j]

\* faulty variant of NewSelection: the selected entries are kept as they are
NewSelectionStale(selected, filteredData) ==
  SelectSeq(selected, LAMBDA r : HasId(filteredData, r.id))

\* newSelection of updateSelection(): for every selected entry the row of
\* filteredData with its identifier, if there is one
NewSelection(selected, filteredData) ==
  LET kept == SelectSeq(selected, LAMBDA r : HasId(filteredData, r.id))
  IN [i \in 1..Len(kept) |-> FindById(filteredData, kept[i].id)]

\* updateSelection()
UpdateSelection(t) ==
  UpdateIsAllRowsSelected(
    [t EXCEPT !.selected = NewSelection(t.selected, t.filteredData)])

\* applyFilters(); updateSelection(); as all the handlers below end
Refresh(t) == UpdateSelection(ApplyFilters(t))

\* the identifiers of a list of rows
IdsOf(rows) == {rows[i].id : i \in DOMAIN rows}

\* the handlers that end with applyFilters() and updateSelection()
RefreshOps ==
  {"setData", "onSearchFilterChange", "clearSearchFilter", "onSortChange",
   "onPageChange", "onPageSizeChange"}

\* a step of the datatable: the page itself is not touched; the step of
\* such a handler records the identifiers selected before it
TableStep(op, t) ==
  /\ table' = t
  /\ last' = [Step(IF op \in RefreshOps THEN "refresh" ELSE "select", 0, 0, FALSE)
                EXCEPT !.before = IF op \in RefreshOps THEN IdsOf(table.selected) ELSE {}]
  /\ UNCHANGED <<listVars, attrVars, initVars, lifeVars, form, fn, svcVars, dialog,
                 deletes, uploads, downloads, bulkSeq>>

\* set data(data): data is an array of new row objects, so the objects
\* filteredData holds are from now on those of a replaced array
SetData(data) ==
  TableStep("setData",
    Refresh([table EXCEPT !.data = data, !.oldRows = table.filteredData # << >>]))

\* onSearchFilterChange(event)
OnSearchFilterChange(filter) ==
  TableStep("onSearchFilterChange", Refresh([table EXCEPT !.searchFilter = filter]))

\* clearSearchFilter()
ClearSearchFilter ==
  TableStep("clearSearchFilter", Refresh([table EXCEPT !.searchFilter = ""]))

\* onSortChange(c) for the column of property prop (both are sortable)
OnSortChange(prop) ==
  TableStep("onSortChange",
    Refresh(IF prop = table.sortHeader
            THEN [table EXCEPT !.sortDirection =
                    IF table.sortDirection = "desc" THEN "asc" ELSE "desc"]
            ELSE [table EXCEPT !.sortHeader = prop, !.sortDirection = "asc"]))

\* onPageChange(page)
OnPageChange(page) == TableStep("onPageChange", Refresh([table EXCEPT !.page = page]))

\* onPageSizeChange(pageSize)
OnPageSizeChange(pageSize) ==
  TableStep("onPageSizeChange", Refresh([table EXCEPT !.pageSize = pageSize]))

\* _.findIndex(selected, [identifier, id]): 0 stands for -1
SelectedIndex(selected, id) ==
  IF HasId(selected, id)
  THEN CHOOSE i \in DOMAIN selected :
         selected[i].id = id /\ \A j \in DOMAIN selected : selected[j].id = id => i <= j
  ELSE 0

RemoveAt(s, i) == SubSeq(s, 1, i - 1) \o SubSeq(s, i + 1, Len(s))

\* onSelectRow(row) for a displayed row
OnSelectRow(row) ==
  LET selectedIndex == SelectedIndex(table.selected, row.id)
      selected == IF selectedIndex = 0
                  THEN IF table.selectionType = "multi"
                       THEN Append(table.selected, row)
                       ELSE <<row>>
                  ELSE RemoveAt(table.selected, selectedIndex)
  IN TableStep("onSelectRow",
       UpdateIsAllRowsSelected([table EXCEPT !.selected = selected]))

\* onHeaderSelectRows(event)
OnHeaderSelectRows ==
  TableStep("onHeaderSelectRows",
    UpdateIsAllRowsSelected(
      [table EXCEPT !.selected =
         IF table.isAllRowsSelected THEN << >> ELSE table.filteredData]))

\* clearSelection()
ClearSelection ==
  TableStep("clearSelection",
    UpdateIsAllRowsSelected([table EXCEPT !.selected = << >>]))

\* ---------------------------------------------------------------------
\* Object keys and path segments (S3BucketService)
\* ---------------------------------------------------------------------
\* A string is a sequence of characters here.
\* _.join(parts, delimiter)
RECURSIVE JoinParts(_)
JoinParts(parts) ==
  IF parts = << >> THEN << >>
  ELSE IF Len(parts) = 1 THEN parts[1]
  ELSE parts[1] \o <<Delimiter>> \o JoinParts(Tail(parts))

\* buildPrefix(parts, trailingDelimiter)
BuildPrefix(parts, trailingDelimiter) ==
  IF trailingDelimiter /\ parts # << >>
  THEN JoinParts(parts) \o <<Delimiter>>
  ELSE JoinParts(parts)

\* buildKey(key, prefixParts): the key of a new entry of the folder
BuildKey(key, parts) == JoinParts(Append(parts, key))

\* the pieces between the delimiters of s, from position i on, cur being
\* the piece read so far
RECURSIVE Pieces(_, _, _)
Pieces(s, i, cur) ==
  IF i > Len(s) THEN <<cur>>
  ELSE IF s[i] = Delimiter THEN <<cur>> \o Pieces(s, i + 1, << >>)
  ELSE Pieces(s, i + 1, Append(cur, s[i]))

\* faulty variant of SplitKey: the key is not split
SplitKeyWhole(key) == IF key = << >> THEN << >> ELSE <<key>>

\* splitKey(key): the non-empty pieces of the key, in order
SplitKey(key) == SelectSeq(Pieces(key, 1, << >>), LAMBDA piece : piece # << >>)

\* ---------------------------------------------------------------------
\* uniqueObjectKey: the asynchronous validator of the key input
\* ---------------------------------------------------------------------
\* the texts typed into the key input and the folders shown
KeyInputs == {<< >>, <<"a">>}
PrefixChoices == {<< >>, <<<<"b">>>>}

\* timer(200), and the step of the clock, in milliseconds
ValidationDelay == 200
ClockStep == 100

\* the error the validator yields
PathExists == "The path already exists."

\* a step that concerns the form: the page and the datatable are not
\* touched; form.page records the state of the page before the step
FormStep(op, f) ==
  /\ form' = [f EXCEPT !.page = <<PageState, form.prefixParts>>]
  /\ last' = Step(op, 0, 0, FALSE)
  /\ UNCHANGED <<listVars, attrVars, initVars, lifeVars, table, fn, svcVars, dialog,
                 deletes, uploads, downloads, bulkSeq>>

\* the user edits the key input, or the form sets its value and leaves
\* the control pristine
SetKeyInput(value, pristine) ==
  /\ form' = [form EXCEPT !.value = value, !.pristine = pristine]
  /\ last' = Step("setKeyInput", 0, 0, FALSE)
  /\ UNCHANGED <<listVars, attrVars, initVars, lifeVars, table, fn, svcVars, dialog,
                 deletes, uploads, downloads, bulkSeq>>

\* faulty variant of TimerDue: the check is not delayed
TimerDueAtOnce(v) == TRUE

\* timer(200) of the validation v has fired
TimerDue(v) == v.elapsed >= ValidationDelay

\* time passes while the timer of the validation runs; the timer may fire
\* one step late
Tick ==
  /\ form.validation.phase = "timer"
  /\ form.validation.elapsed < ValidationDelay + ClockStep
  /\ form' = [form EXCEPT !.validation.elapsed = @ + ClockStep]
  /\ last' = Step("tick", 0, 0, FALSE)
  /\ UNCHANGED <<listVars, attrVars, initVars, lifeVars, table, fn, svcVars, dialog,
                 deletes, uploads, downloads, bulkSeq>>

\* the validator is called for the control: of(null) for a pristine
\* control or an empty value, otherwise the key is built and the timer
\* started. The forms framework subscribes to one validation at a time:
\* it unsubscribes from the one in progress, whose timer or call is
\* dropped with it.
UniqueObjectKey ==
  LET skipped == form.pristine \/ form.value = << >>
      v == [pristine |-> form.pristine, value |-> form.value,
            elapsed |-> 0,
            key |-> IF skipped THEN << >> ELSE BuildKey(form.value, form.prefixParts),
            phase |-> IF skipped THEN "done" ELSE "timer",
            calls |-> << >>, resp |-> FALSE, error |-> ""]
  IN /\ form.calls < MaxValidations
     /\ FormStep("uniqueObjectKey",
                 [form EXCEPT !.validation = v, !.calls = @ + 1])

\* switchMap(() => existsObject(bid, key)) once the timer has fired
ValidationTimer ==
  LET v == form.validation
  IN /\ v.phase = "timer"
     /\ TimerDue(v)
     /\ FormStep("validationTimer",
                 [form EXCEPT !.validation =
                    [v EXCEPT !.phase = "check",
                              !.calls = <<[key |-> v.key, after |-> v.elapsed]>>]])

\* existsObject answers resp: null if the key is free, the error otherwise
ExistsObjectNext(resp) ==
  LET v == form.validation
  IN /\ v.phase = "check"
     /\ FormStep("existsObjectNext",
                 [form EXCEPT !.validation =
                    [v EXCEPT !.phase = "done", !.resp = resp,
                              !.error = IF ~resp THEN "" ELSE PathExists]])

\* ---------------------------------------------------------------------
\* Numbers of the helper functions
\* ---------------------------------------------------------------------
\* A number of type number that is a non-negative integer is the sequence
\* of its digits in base 1024, the lowest first, without leading zeros:
\* << >> is 0, <<0, 1>> is 1024.
LimbBase == 1024

\* x * m + c for integers m and c below 2^20
RECURSIVE MulAdd(_, _, _)
MulAdd(x, m, c) ==
  IF x = << >>
  THEN IF c = 0 THEN << >> ELSE <<c % LimbBase>> \o MulAdd(<< >>, m, c \div LimbBase)
  ELSE LET t == x[1] * m + c
       IN IF Len(x) = 1 /\ t = 0 THEN << >>
          ELSE <<t % LimbBase>> \o MulAdd(Tail(x), m, t \div LimbBase)

\* the number of the integer n
Num(n) == MulAdd(<< >>, 0, n)

\* x without leading zero digits
RECURSIVE Canonical(_)
Canonical(x) ==
  IF x = << >> THEN << >>
  ELSE IF x[Len(x)] = 0 THEN Canonical(SubSeq(x, 1, Len(x) - 1))
  ELSE x

\* x * 1024^k
RECURSIVE ShiftUp(_, _)
ShiftUp(x, k) ==
  IF x = << >> \/ k = 0 THEN x ELSE ShiftUp(<<0>> \o x, k - 1)

\* Math.pow(1024, k)
Pow1024(k) == ShiftUp(<<1>>, k)

\* quotient and remainder of x by an integer d of at most 2^21
RECURSIVE DivMod(_, _)
DivMod(x, d) ==
  IF x = << >> THEN [q |-> << >>, r |-> 0]
  ELSE LET high == DivMod(Tail(x), d)
           t == high.r * LimbBase + x[1]
       IN [q |-> Canonical(<<t \div d>> \o high.q), r |-> t % d]

\* x + y
RECURSIVE Plus(_, _, _)
Plus(x, y, c) ==
  IF x = << >> /\ y = << >> THEN (IF c = 0 THEN << >> ELSE <<c>>)
  ELSE LET a == IF x = << >> THEN 0 ELSE x[1]
           b == IF y = << >> THEN 0 ELSE y[1]
           t == a + b + c
       IN <<t % LimbBase>> \o
          Plus(IF x = << >> THEN x ELSE Tail(x), IF y = << >> THEN y ELSE Tail(y),
               t \div LimbBase)

\* the number of binary digits of x
RECURSIVE BitsOf(_)
BitsOf(n) == IF n = 0 THEN 0 ELSE 1 + BitsOf(n \div 2)
BitLen(x) == IF x = << >> THEN 0 ELSE 10 * (Len(x) - 1) + BitsOf(x[Len(x)])

\* the binary digits a number holds exactly
MantissaBits == 53

\* 2^n for n below 31
RECURSIVE Pow2(_)
Pow2(n) == IF n = 0 THEN 1 ELSE 2 * Pow2(n - 1)

\* x rounded to a multiple of 2^n, to the nearest one and on a tie to the
\* one whose quotient by 2^n is even
RoundToBits(x, n) ==
  LET limbs == n \div 10
      bits == n % 10
      low == SubSeq(x, 1, limbs)
      high == DivMod(SubSeq(x, limbs + 1, Len(x)), Pow2(bits))
      lowZero == \A i \in DOMAIN low : low[i] = 0
      half == IF bits > 0 THEN high.r >= Pow2(bits - 1)
              ELSE limbs > 0 /\ low[limbs] >= LimbBase \div 2
      sticky == IF bits > 0 THEN high.r % Pow2(bits - 1) # 0 \/ ~lowZero
                ELSE \/ low[limbs] % (LimbBase \div 2) # 0
                     \/ \E i \in 1..(limbs - 1) : low[i] # 0
      odd == high.q # << >> /\ high.q[1] % 2 = 1
      quotient == IF half /\ (sticky \/ odd) THEN Plus(high.q, <<1>>, 0) ELSE high.q
  IN ShiftUp(MulAdd(quotient, Pow2(bits), 0), limbs)

\* the value of type number nearest to the integer x
ToNumber(x) ==
  IF BitLen(x) <= MantissaBits THEN x
  ELSE RoundToBits(x, BitLen(x) - MantissaBits)

\* Math.round(x / d): the nearest integer, the upper one on a tie
RoundDiv(x, d) == DivMod(Plus(MulAdd(x, 2, 0), Num(d), 0), 2 * d).q

\* the value of a digit character, and of a sequence of them
DigitChars == {"0", "1", "2", "3", "4", "5", "6", "7", "8", "9"}
DigitValue(c) ==
  CASE c = "0" -> 0 [] c = "1" -> 1 [] c = "2" -> 2 [] c = "3" -> 3 [] c = "4" -> 4
    [] c = "5" -> 5 [] c = "6" -> 6 [] c = "7" -> 7 [] c = "8" -> 8 [] c = "9" -> 9
RECURSIVE FromDigits(_)
FromDigits(ds) ==
  IF ds = << >> THEN << >>
  ELSE MulAdd(FromDigits(SubSeq(ds, 1, Len(ds) - 1)), 10, DigitValue(ds[Len(ds)]))

RECURSIVE TimesPow10(_, _)
TimesPow10(x, n) == IF n = 0 THEN x ELSE TimesPow10(MulAdd(x, 10, 0), n - 1)

\* x < y
RECURSIVE LessThan(_, _)
LessThan(x, y) ==
  IF Len(x) # Len(y) THEN Len(x) < Len(y)
  ELSE IF x = << >> THEN FALSE
  ELSE IF x[Len(x)] # y[Len(y)] THEN x[Len(x)] < y[Len(y)]
  ELSE LessThan(SubSeq(x, 1, Len(x) - 1), SubSeq(y, 1, Len(y) - 1))

\* the decimal digits of the integer n, and of the number x
DigitChar(d) == <<"0", "1", "2", "3", "4", "5", "6", "7", "8", "9">>[d + 1]
RECURSIVE DigitsOf(_)
DigitsOf(x) ==
  LET h == DivMod(x, 10)
  IN IF h.q = << >> THEN <<DigitChar(h.r)>> ELSE Append(DigitsOf(h.q), DigitChar(h.r))

RECURSIVE WithoutTrailingZeros(_)
WithoutTrailingZeros(ds) ==
  IF Len(ds) > 1 /\ ds[Len(ds)] = "0"
  THEN WithoutTrailingZeros(SubSeq(ds, 1, Len(ds) - 1)) ELSE ds

\* StringValue(x) for a number x that is a non-negative integer: its decimal
\* digits below 10^21, else the form d.ddde+n. (The digits printed are the
\* shortest that give x back; for the powers of ten they are the exact
\* ones, as computed here.)
NumberToString(x) ==
  LET ds == DigitsOf(x)
      mantissa == WithoutTrailingZeros(ds)
  IN IF Len(ds) <= 21 THEN ds
     ELSE <<mantissa[1]>>
          \o (IF Len(mantissa) > 1 THEN <<".">> \o Tail(mantissa) ELSE << >>)
          \o <<"e", "+">> \o DigitsOf(Num(Len(ds) - 1))

\* ---------------------------------------------------------------------
\* toBytes
\* ---------------------------------------------------------------------
Units == <<"b", "k", "m", "g", "t", "p", "e", "z", "y">>

\* c.toLowerCase() for the letters that occur
LowerCase(c) ==
  CASE c = "B" -> "b" [] c = "K" -> "k" [] c = "M" -> "m" [] c = "G" -> "g"
    [] c = "T" -> "t" [] c = "P" -> "p" [] c = "E" -> "e" [] c = "Z" -> "z"
    [] c = "Y" -> "y" [] c = "I" -> "i" [] c = "S" -> "s" [] OTHER -> c
LowerCaseAll(s) == [i \in DOMAIN s |-> LowerCase(s[i])]

\* units.indexOf(c): -1 if c is no unit letter
UnitIndex(c) ==
  IF \E i \in DOMAIN Units : Units[i] = c
  THEN (CHOOSE i \in DOMAIN Units : Units[i] = c) - 1
  ELSE -1

\* \d+
AllDigits(s) == s # << >> /\ \A i \in DOMAIN s : s[i] \in DigitChars

\* the position of the character between the integer digits and the
\* fraction digits of s, if s matches \d+.\d+ and not \d+; else 0
SeparatorPos(s) ==
  IF \E i \in 2..(Len(s) - 1) :
       /\ s[i] \notin DigitChars
       /\ AllDigits(SubSeq(s, 1, i - 1))
       /\ AllDigits(SubSeq(s, i + 1, Len(s)))
  THEN CHOOSE i \in 2..(Len(s) - 1) : s[i] \notin DigitChars
  ELSE 0

\* faulty variant of MatchesNumber: the separator has to be a dot
MatchesNumberDot(s) ==
  AllDigits(s) \/ (SeparatorPos(s) # 0 /\ s[SeparatorPos(s)] = ".")

\* s matches \d+(.\d+)? : the dot of the expression stands for any character
MatchesNumber(s) == AllDigits(s) \/ SeparatorPos(s) # 0

\* s matches [bkmgtpezy]?(b|ib|B/s)? without regard to case
MatchesUnit(s) ==
  LET t == LowerCaseAll(s)
      Suffixes == {<< >>, <<"b">>, <<"i", "b">>, <<"b", "/", "s">>}
  IN \/ t \in Suffixes
     \/ t # << >> /\ UnitIndex(t[1]) >= 0 /\ Tail(t) \in Suffixes

\* the length of the longest prefix of s that ends with a digit
RECURSIVE NumberEnd(_)
NumberEnd(s) ==
  IF s = << >> THEN 0
  ELSE IF s[Len(s)] \in DigitChars THEN Len(s)
  ELSE NumberEnd(SubSeq(s, 1, Len(s) - 1))

\* RegExp(...).exec(s): the groups m[1] and m[3] (m[3] is undefined when
\* there is no unit text), or no match. The unit text holds no digit, so
\* m[1] ends with the last digit of s.
NoMatch == [matched |-> FALSE]
Exec(s) ==
  LET n == NumberEnd(s)
      number == SubSeq(s, 1, n)
      rest == SubSeq(s, n + 1, Len(s))
      unit == IF rest # << >> /\ rest[1] = " " THEN Tail(rest) ELSE rest
  IN IF n > 0 /\ MatchesNumber(number) /\ MatchesUnit(unit)
     THEN [matched |-> TRUE, number |-> number, unit |-> unit]
     ELSE NoMatch

\* the integer that a sequence of at most four digits stands for
RECURSIVE SmallValue(_)
SmallValue(ds) ==
  IF ds = << >> THEN 0
  ELSE 10 * SmallValue(SubSeq(ds, 1, Len(ds) - 1)) + DigitValue(ds[Len(ds)])

RECURSIVE Pow10(_)
Pow10(n) == IF n = 0 THEN 1 ELSE 10 * Pow10(n - 1)

\* parseFloat(m[1]) as a fraction num / 10^scale: the digits with a
\* fraction after a dot or an exponent after an e, else the digits before
\* the separator
ParseFloat(s) ==
  LET at == SeparatorPos(s)
      before == SubSeq(s, 1, at - 1)
      after == SubSeq(s, at + 1, Len(s))
  IN IF AllDigits(s) THEN [num |-> ToNumber(FromDigits(s)), scale |-> 0]
     ELSE IF s[at] = "."
     THEN [num |-> FromDigits(before \o after), scale |-> Len(after)]
     ELSE IF LowerCase(s[at]) = "e"
     THEN [num |-> ToNumber(TimesPow10(FromDigits(before), SmallValue(after))),
           scale |-> 0]
     ELSE [num |-> ToNumber(FromDigits(before)), scale |-> 0]

\* faulty variant of Scale: the units are powers of 1000
ScaleDecimal(f, index) ==
  IF index >= 0
  THEN RoundDiv(TimesPow10(f.num, 3 * index), Pow10(f.scale))
  ELSE RoundDiv(f.num, Pow10(f.scale) * 1000)

\* Math.round(bytes * Math.pow(1024, index))
Scale(f, index) ==
  IF index >= 0
  THEN IF f.scale = 0 THEN ShiftUp(f.num, index)
       ELSE RoundDiv(ShiftUp(f.num, index), Pow10(f.scale))
  ELSE RoundDiv(f.num, Pow10(f.scale) * LimbBase)

\* what a helper function returns
NullValue == [kind |-> "null"]
NumberValue(x) == [kind |-> "number", value |-> x]
StringValue(s) == [kind |-> "string", value |-> s]
UndefinedValue == [kind |-> "undefined"]
ListValue(parts) == [kind |-> "list", value |-> parts]
Segments(parts, trailingDelimiter) ==
  [kind |-> "segments", parts |-> parts, trailingDelimiter |-> trailingDelimiter]

\* StringValue(value)
ToStr(value) ==
  CASE value.kind = "string" -> value.value
    [] value.kind = "number" -> NumberToString(value.value)
    [] value.kind = "null" -> <<"n", "u", "l", "l">>
    [] OTHER -> <<"u", "n", "d", "e", "f", "i", "n", "e", "d">>

\* toBytes(value)
ToBytes(value) ==
  LET m == Exec(ToStr(value))
  IN IF ~m.matched THEN NullValue
     ELSE IF m.unit # << >>
     THEN NumberValue(ToNumber(Scale(ParseFloat(m.number), UnitIndex(LowerCase(m.unit[1])))))
     ELSE NumberValue(ToNumber(Scale(ParseFloat(m.number), 0)))

\* ---------------------------------------------------------------------
\* bytesToSize
\* ---------------------------------------------------------------------
Sizes == << <<"B">>, <<"K", "i", "B">>, <<"M", "i", "B">>, <<"G", "i", "B">>,
            <<"T", "i", "B">>, <<"P", "i", "B">>, <<"E", "i", "B">>,
            <<"Z", "i", "B">>, <<"Y", "i", "B">> >>

\* faulty variant of SizeIndex: one unit too low
SizeIndexBelow(x) == IF Len(x) > 1 THEN Len(x) - 2 ELSE 0

\* Math.floor(Math.log(bytes) / Math.log(1024)) for an integer of at least
\* 1: the number of its digits in base 1024, less one. (For the powers of
\* 1024 the quotient of the two logarithms is the exact integer.)
SizeIndex(x) == Len(x) - 1

\* Math.round((bytes / Math.pow(1024, i) + Number.EPSILON) * 100): the
\* hundredths of the value shown
Hundredths(x, i) ==
  LET scaled == MulAdd(x, 100, 0)
      kept == SubSeq(scaled, i + 1, Len(scaled))
      up == i > 0 /\ scaled[i] >= LimbBase \div 2
  IN IF up THEN Plus(kept, <<1>>, 0) ELSE kept

\* StringValue(h / 100) for the hundredths h
HundredthsToString(h) ==
  LET parts == DivMod(h, 100)
      tenths == parts.r \div 10
      units == parts.r % 10
  IN DigitsOf(parts.q)
     \o (IF parts.r = 0 THEN << >>
         ELSE IF units = 0 THEN <<".", DigitChar(tenths)>>
         ELSE <<".", DigitChar(tenths), DigitChar(units)>>)

\* bytesToSize(value)
BytesToSize(value) ==
  IF \/ value.kind \in {"undefined", "null"}
     \/ value = NumberValue(<< >>)
     \/ value = StringValue(<<"0">>)
     \/ value = StringValue(<< >>)
  THEN StringValue(<<"0", " ", "B">>)
  ELSE LET bytes == value.value
           i == SizeIndex(bytes)
       IN StringValue(HundredthsToString(Hundredths(bytes, i)) \o <<" ">>
                 \o (IF i + 1 \in DOMAIN Sizes THEN Sizes[i + 1]
                     ELSE ToStr(UndefinedValue)))

\* ---------------------------------------------------------------------
\* Calls of the helper functions
\* ---------------------------------------------------------------------
\* the strings of at most n characters of the set chars
Strings(chars, n) == UNION { [1..k -> chars] : k \in 0..n }

\* the texts handed to toBytes: a number text, a space or none, a unit
\* letter or none, an ending or none; each part can be malformed
HeadChars == {"1", "5", ".", "e"}
UnitTexts ==
  {<< >>, <<"b">>, <<"k">>, <<"m">>, <<"g">>, <<"t">>, <<"p">>, <<"e">>, <<"z">>,
   <<"y">>, <<"K">>, <<"x">>}
UnitEndings == {<< >>, <<"b">>, <<"i", "b">>, <<"I", "B">>, <<"B", "/", "s">>}
ByteTexts ==
  { head \o space \o unit \o ending :
      head \in Strings(HeadChars, MaxHeadLen), space \in {<< >>, <<" ">>},
      unit \in UnitTexts, ending \in UnitEndings }

\* 2^53 + 1, the smallest integer that is no value of type number, as text
UnsafeInteger ==
  <<"9", "0", "0", "7", "1", "9", "9", "2", "5", "4", "7", "4", "0", "9", "9", "3">>

\* number texts with another separator than the dot
OddSeparators == {<<"1", "x", "5">>, <<"1", ",", "5">>, <<"1", " ", "5">>}

\* the numbers handed to toBytes: 0, 1, 1024 and 10^21
ByteNumbers == {Num(0), Num(1), Num(1024), TimesPow10(Num(1), 21)}

ToBytesInputs ==
  {StringValue(text) : text \in ByteTexts \cup {UnsafeInteger} \cup OddSeparators}
  \cup {NumberValue(x) : x \in ByteNumbers}

\* the values handed to bytesToSize: m * 1024^k, and the empty ones
BytesToSizeInputs ==
  {UndefinedValue, NullValue, StringValue(<< >>), StringValue(<<"0">>), NumberValue(Num(0))}
  \cup {NumberValue(ShiftUp(Num(m), k)) : m \in {1, 1023, 1536}, k \in 0..Len(Sizes)}

\* the segment lists handed to buildPrefix
SegmentChars == {"a", Delimiter}
SegmentLists == Strings(Strings(SegmentChars, MaxSegLen), MaxSegs)

\* a call that has not returned yet
Pending == [kind |-> "pending"]
Call(name, input) == [name |-> name, input |-> input, output |-> Pending, via |-> Pending]

HelperCalls ==
  {Call("toBytes", v) : v \in ToBytesInputs}
  \cup {Call("bytesToSize", v) : v \in BytesToSizeInputs}
  \cup {Call("buildPrefix", Segments(parts, t)) :
          parts \in SegmentLists, t \in BOOLEAN}

\* a helper function returns: nothing of the page is touched
HelperStep(call) ==
  /\ fn' = call
  /\ last' = Step(call.name, 0, 0, FALSE)
  /\ UNCHANGED <<listVars, attrVars, initVars, lifeVars, table, form, svcVars, dialog,
                 deletes, uploads, downloads, bulkSeq>>

CallToBytes ==
  /\ fn.name = "toBytes"
  /\ fn.output = Pending
  /\ HelperStep([fn EXCEPT !.output = ToBytes(fn.input)])

CallBytesToSize ==
  /\ fn.name = "bytesToSize"
  /\ fn.output = Pending
  /\ HelperStep([fn EXCEPT !.output = BytesToSize(fn.input)])

\* toBytes applied to what bytesToSize returned
CallToBytesOfSize ==
  /\ fn.name = "bytesToSize"
  /\ fn.output # Pending
  /\ HelperStep([name |-> "toBytesOfSize", input |-> fn.input, via |-> fn.output,
                 output |-> ToBytes(fn.output)])

CallBuildPrefix ==
  /\ fn.name = "buildPrefix"
  /\ fn.output = Pending
  /\ HelperStep([fn EXCEPT !.output =
                   StringValue(BuildPrefix(fn.input.parts, fn.input.trailingDelimiter))])

\* splitKey applied to what buildPrefix returned
CallSplitKeyOfPrefix ==
  /\ fn.name = "buildPrefix"
  /\ fn.output # Pending
  /\ HelperStep([name |-> "splitKeyOfPrefix", input |-> fn.input, via |-> fn.output,
                 output |-> ListValue(SplitKey(fn.output.value))])

\* ---------------------------------------------------------------------
\* Navigation: onRowSelection and doCreateFolder
\* ---------------------------------------------------------------------
\* the characters of the keys of the listing answers; the folder row F
\* stands for the nested folder F/G/
KeyText(key) ==
  IF key = "F" THEN <<"F", Delimiter, "G", Delimiter>> ELSE <<key>>

\* the columns of the datatable a click can hit: the action or checkbox
\* column has the empty name
ColumnNames == {"", "Key"}

\* faulty variant of SelectsFolder: the clicked column is not looked at
SelectsFolderAnyColumn(row, column) == row.Type = "FOLDER"

\* 'FOLDER' === row.Type && '' !== column.name
SelectsFolder(row, column) == row.Type = "FOLDER" /\ column.name # ""

\* onRowSelection([row, column]); form.page records the state of the page
\* and prefixParts before the event
OnRowSelection(row, column, maxLoads) ==
  /\ loadSeq < maxLoads
  /\ IF SelectsFolder(row, column)
     THEN /\ form' = [form EXCEPT !.prefixParts = SplitKey(KeyText(row.Key)),
                                  !.page = <<PageState, form.prefixParts>>]
          /\ Reload
     ELSE /\ form' = [form EXCEPT !.page = <<PageState, form.prefixParts>>]
          /\ UNCHANGED reloadVars
  /\ last' = [Step("onRowSelection", loadSeq', loadSeq' - loadSeq, FALSE)
                EXCEPT !.rows = <<row>>, !.input = column.name,
                       !.wrote = (listings' # listings)]
  /\ UNCHANGED <<restVars, initVars, lifeVars, table, fn, svcVars, dialog,
                 deletes, uploads, downloads, bulkSeq>>

\* the paths typed into the create-folder dialog
FolderPaths == {<<"a">>, <<"a", Delimiter, "b">>}

\* doCreateFolder(): the dialog opens with an empty path
DoCreateFolder(maxFolders) ==
  /\ ~form.open
  /\ form.folders < maxFolders
  /\ form' = [form EXCEPT !.open = TRUE, !.value = << >>, !.pristine = TRUE,
                          !.folders = @ + 1]
  /\ last' = Step("doCreateFolder", 0, 0, FALSE)
  /\ UNCHANGED <<listVars, attrVars, initVars, lifeVars, table, fn, svcVars, dialog,
                 deletes, uploads, downloads, bulkSeq>>

\* faulty variant of PushParts: the new parts replace the folder path
PushPartsReplacing(parts, newPathParts) == newPathParts

\* this.prefixParts.push(...newPathParts)
PushParts(parts, newPathParts) == parts \o newPathParts

\* The dialog is closed with the values of the form (result !== false).
ConfirmCreateFolder(path) ==
  /\ form.open
  /\ form' = [form EXCEPT !.open = FALSE, !.value = path,
                          !.prefixParts = PushParts(@, SplitKey(path)),
                          !.page = <<PageState, form.prefixParts>>]
  /\ objects' = << >>
  /\ rowReq' = << >>
  /\ UNCHANGED <<objectNumVersions, pageStatus, firstLoadComplete, showDeletedObjects,
                 toggleReq, listings, loadSeq, reqContent, attrVars, initVars,
                 lifeVars, table, fn, svcVars, dialog, deletes, uploads, downloads,
                 bulkSeq>>
  /\ last' = [Step("confirmCreateFolder", 0, loadSeq' - loadSeq, FALSE)
                EXCEPT !.wrote = (<<listings, deletes, uploads>>' # <<listings, deletes, uploads>>)]

\* The dialog is dismissed (result === false).
CancelCreateFolder ==
  /\ form.open
  /\ form' = [form EXCEPT !.open = FALSE,
                          !.page = <<PageState, form.prefixParts>>]
  /\ UNCHANGED <<listVars, attrVars, initVars, lifeVars, table, fn, svcVars, dialog,
                 deletes, uploads, downloads, bulkSeq>>
  /\ last' = [Step("cancelCreateFolder", 0, loadSeq' - loadSeq, FALSE)
                EXCEPT !.wrote = (<<listings, deletes, uploads>>' # <<listings, deletes, uploads>>)]

\* ---------------------------------------------------------------------
\* AdminOpsBucketService.update
\* ---------------------------------------------------------------------
\* Attribute values are strings; Absent stands for undefined.
MaxUsers == 2
MaxTagSets == 2
MaxValidity == 2

Users == {ToString(i) : i \in 1..MaxUsers}
TagSets == {ToString(i) : i \in 1..MaxTagSets}
Validities == {ToString(i) : i \in 1..MaxValidity}
Flags == {"true", "false"}
RetentionModes == {"GOVERNANCE", "COMPLIANCE"}
RetentionUnits == {"Days", "Years"}

Optional(values) == values \cup {Absent}

RetentionAttrs ==
  {"retention_enabled", "retention_mode", "retention_validity", "retention_unit"}
UpdateAttrs == {"tags", "versioning_enabled"} \cup RetentionAttrs
ExtraAttrs == UpdateAttrs \cup {"object_lock_enabled"}

\* the partial buckets handed to update: every attribute may be undefined
UpdateInputs ==
  [bucket : {"b"}, id : {"id"}, owner : Optional(Users), tags : Optional(TagSets),
   versioning_enabled : Optional(Flags), object_lock_enabled : {Absent},
   retention_enabled : Optional(Flags), retention_mode : Optional(RetentionModes),
   retention_validity : Optional(Validities), retention_unit : Optional(RetentionUnits)]

\* the buckets get() can deliver: one with object lock and a default
\* retention, one without object lock (no retention attributes)
StoredBuckets ==
  { [bucket |-> "b", id |-> "id", owner |-> "1", tags |-> "1",
     versioning_enabled |-> "true", object_lock_enabled |-> "true",
     retention_enabled |-> "true", retention_mode |-> "GOVERNANCE",
     retention_validity |-> "1", retention_unit |-> "Days"],
    [bucket |-> "b", id |-> "id", owner |-> "1", tags |-> "1",
     versioning_enabled |-> "false", object_lock_enabled |-> "false",
     retention_enabled |-> Absent, retention_mode |-> Absent,
     retention_validity |-> Absent, retention_unit |-> Absent] }

\* _.isString
IsString(value) == value # Absent

\* faulty variant of IsEqualOrUndefined: plain _.isEqual
IsEqualStrict(value, other) == value = other

\* isEqualOrUndefined(value, other)
IsEqualOrUndefined(value, other) ==
  IF value = Absent \/ other = Absent THEN TRUE ELSE value = other

\* The body of the switchMap of update: the modified currentBucket and the
\* sources pushed, in order.
UpdatePlan(bucket, currentBucket) ==
  LET ownerChanges == IsString(bucket.owner) /\ bucket.owner # currentBucket.owner
      c1 == IF ownerChanges THEN [currentBucket EXCEPT !.owner = bucket.owner]
            ELSE currentBucket
      s1 == IF ownerChanges THEN <<[name |-> "link", uid |-> bucket.owner]>>
            ELSE << >>
      differs == \E a \in UpdateAttrs : ~IsEqualOrUndefined(bucket[a], c1[a])
      c2 == IF ~IsEqualOrUndefined(bucket.tags, c1.tags)
            THEN [c1 EXCEPT !.tags = bucket.tags] ELSE c1
      c3 == IF ~IsEqualOrUndefined(bucket.versioning_enabled, c2.versioning_enabled)
            THEN [c2 EXCEPT !.versioning_enabled = bucket.versioning_enabled] ELSE c2
      c4 == IF /\ c3.object_lock_enabled = "true"
               /\ \E a \in RetentionAttrs : bucket[a] # c3[a]
            THEN [c3 EXCEPT !.retention_enabled = bucket.retention_enabled,
                            !.retention_mode = bucket.retention_mode,
                            !.retention_validity = bucket.retention_validity,
                            !.retention_unit = bucket.retention_unit]
            ELSE c3
  IN IF differs
     THEN [current |-> c4,
           sources |-> Append(s1, [name |-> "setAttributes", uid |-> bucket.owner])]
     ELSE [current |-> c1, sources |-> s1]

\* faulty variant of RunInSeries: the sources are subscribed at once
RunAtOnce(n, done) == 1..n

\* concat(...sources): a source is subscribed when the sources before it
\* have completed
RunInSeries(n, done) == {i \in 1..n : \A j \in 1..(i - 1) : j \in done}

\* a step of the service: nothing of the page is touched
UpdateStep(op, u) ==
  /\ upd' = u
  /\ last' = Step(op, 0, 0, FALSE)
  /\ UNCHANGED <<listVars, attrVars, initVars, lifeVars, table, form, fn, blockUi,
                 dialog, deletes, uploads, downloads, bulkSeq>>

\* update(bucket): this.get(bucket.bucket) is called
Update(bucket) ==
  /\ upd.phase = "none"
  /\ UpdateStep("update", [phase |-> "get", input |-> bucket])

\* get fails: update fails without a call
UpdateGetError ==
  /\ upd.phase = "get"
  /\ UpdateStep("updateGetError",
                [phase |-> "failed", input |-> upd.input, original |-> Absent,
                 current |-> Absent, sources |-> << >>, started |-> {}, done |-> {},
                 failedAt |-> 0, result |-> Absent])

\* get delivers the stored bucket: the switchMap builds the sources and
\* concat subscribes; without sources toArray emits at once.
UpdateGetNext(stored) ==
  /\ upd.phase = "get"
  /\ LET plan == UpdatePlan(upd.input, stored)
         n == Len(plan.sources)
     IN UpdateStep("updateGetNext",
                   [phase |-> IF n = 0 THEN "done" ELSE "run", input |-> upd.input,
                    original |-> stored, current |-> plan.current,
                    sources |-> plan.sources, started |-> RunInSeries(n, {}),
                    done |-> {}, failedAt |-> 0,
                    result |-> IF n = 0 THEN plan.current ELSE Absent])

\* the running call i (link, or getKey and the update of setAttributes)
\* completes; after the last one update emits currentBucket
UpdateCallDone(i) ==
  /\ upd.phase = "run"
  /\ i \in upd.started \ upd.done
  /\ LET done == upd.done \cup {i}
         n == Len(upd.sources)
     IN UpdateStep("updateCallDone",
                   IF done = 1..n
                   THEN [upd EXCEPT !.done = done, !.phase = "done",
                                    !.result = upd.current]
                   ELSE [upd EXCEPT !.done = done,
                                    !.started = @ \cup RunInSeries(n, done)])

\* the running call i fails: concat fails, update fails
UpdateCallFail(i) ==
  /\ upd.phase = "run"
  /\ i \in upd.started \ upd.done
  /\ UpdateStep("updateCallFail", [upd EXCEPT !.phase = "failed", !.failedAt = i])

\* ---------------------------------------------------------------------
\* Specification
\* ---------------------------------------------------------------------
\* The listing alone: reloads and the notifications of the listings.
NextListing ==
  \/ LoadData(MaxLoads, MaxLoads)
  \/ ToggleShowDeleted(MaxLoads, MaxLoads)
  \/ \E l \in listings : ListNext(l)
  \/ \E l \in listings : ListComplete(l)
  \/ \E l \in listings : ListError(l)

SpecListing == Init /\ [][NextListing]_vars

\* The listing together with the expansion of rows.
Next ==
  \/ LoadData(MaxReloads, MaxOps)
  \/ ToggleShowDeleted(MaxReloads, MaxOps)
  \/ \E l \in listings : ListNext(l)
  \/ \E l \in listings : ListComplete(l)
  \/ \E l \in listings : ListError(l)
  \/ \E ev \in ExpandEvents : OnExpandedRowsChange(ev, MaxOps)
  \/ \E b \in batches : \E i \in 1..Len(b.sources) : FetchSucceed(b, i)
  \/ \E b \in batches : \E i \in 1..Len(b.sources) : FetchFail(b, i)

Spec == Init /\ [][Next]_vars

\* The same with fewer events: a listing and the batch of one expansion.
NextBatch ==
  \/ LoadData(MaxReloads, MaxBatchOps)
  \/ ToggleShowDeleted(MaxReloads, MaxBatchOps)
  \/ \E l \in listings : ListNext(l)
  \/ \E l \in listings : ListComplete(l)
  \/ \E l \in listings : ListError(l)
  \/ \E ev \in ExpandEvents : OnExpandedRowsChange(ev, MaxBatchOps)
  \/ \E b \in batches : \E i \in 1..Len(b.sources) : FetchSucceed(b, i)
  \/ \E b \in batches : \E i \in 1..Len(b.sources) : FetchFail(b, i)

SpecBatch == Init /\ [][NextBatch]_vars

\* A listing and the expansion events that follow it, with events that
\* carry cached, uncached and deleted rows together.
NextExpand ==
  \/ LoadData(MaxReloads, MaxExpandOps - loadSeq - 1)
  \/ ToggleShowDeleted(MaxReloads, MaxExpandOps - loadSeq - 1)
  \/ \E l \in listings : ListNext(l)
  \/ \E l \in listings : ListComplete(l)
  \/ \E l \in listings : ListError(l)
  \/ \E ev \in ExpandEventsUpTo(MaxExpandRows) :
       OnExpandedRowsChange(ev, MaxExpandOps - loadSeq)
  \/ \E b \in batches : \E i \in 1..Len(b.sources) : FetchSucceed(b, i)
  \/ \E b \in batches : \E i \in 1..Len(b.sources) : FetchFail(b, i)

SpecExpand == Init /\ [][NextExpand]_vars

\* The reloads and the notifications of the listings, for the version of
\* the component in use
BulkListing ==
  \/ LoadDataBulk(MaxBulkLoads)
  \/ \E l \in listings : variant = "frontend" /\ ListNext(l)
  \/ \E l \in listings : variant = "app" /\ ListNextApp(l)
  \/ \E l \in listings : ListComplete(l)
  \/ \E l \in listings : ListError(l)

\* Page initialisation, the listing and the delete of selected rows.
NextDelete ==
  \/ NgOnInit
  \/ GetVersioningNext
  \/ GetVersioningError
  \/ versioning # "none" /\ BulkListing
  \/ DoDelete(MaxSelect, MaxBulk, MaxBulkLoads)
  \/ \E allVersions \in BOOLEAN : ConfirmDelete(allVersions)
  \/ CancelDelete
  \/ \E b \in deletes : \E i \in 1..Len(b.sources) : DeleteOpDone(b, i)
  \/ \E b \in deletes : \E i \in 1..Len(b.sources) : DeleteOpFail(b, i)

SpecDelete == InitBulk /\ [][NextDelete]_vars

\* The listing and the download of selected rows.
NextDownload ==
  \/ BulkListing
  \/ DoDownload(MaxSelect, MaxBulk)
  \/ \E d \in downloads : \E i \in 1..Len(d.keys) : DownloadDone(d, i)
  \/ \E d \in downloads : \E i \in 1..Len(d.keys) : DownloadFail(d, i)

SpecDownload == InitBulk /\ [][NextDownload]_vars

\* the requests SpecUpload has explored so far
UploadOps == expandSeq + 2 * bulkSeq

\* The first listing of the page, the expansion of rows and the upload of
\* files: every further listing is the reload of a completed upload.
NextUpload ==
  \/ loadSeq = 0 /\ LoadDataBulk(1)
  \/ \E l \in listings : variant = "frontend" /\ ListNext(l)
  \/ \E l \in listings : variant = "app" /\ ListNextApp(l)
  \/ \E l \in listings : ListComplete(l)
  \/ \E l \in listings : ListError(l)
  \/ \E ev \in ExpandEventsUpTo(1) :
       /\ variant = "frontend"
       /\ ~Blocked
       /\ UploadOps + 1 <= MaxUploadOps
       /\ OnExpandedRowsChange(ev, loadSeq + expandSeq + 1)
  \/ \E b \in batches : \E i \in 1..Len(b.sources) : FetchSucceed(b, i)
  \/ \E b \in batches : \E i \in 1..Len(b.sources) : FetchFail(b, i)
  \/ /\ loadSeq > 0
     /\ ~Blocked
     /\ UploadOps + 2 <= MaxUploadOps
     /\ DoUpload(MaxFiles, bulkSeq + 1, loadSeq + Reserved + 1)
  \/ \E u \in uploads : UploadProgress(u)
  \/ \E u \in uploads : UploadComplete(u)
  \/ \E u \in uploads : \E err \in ErrMessages : UploadError(u, err)

SpecUpload == InitBulk /\ [][NextUpload]_vars

\* The life of a page: initialisation, the first listing, the expansion
\* of a row, an upload, and the destruction of the page at any moment;
\* a destroyed page takes no user input, its tasks still settle.
NextDestroy ==
  \/ ~destroyed /\ NgOnInit
  \/ GetVersioningNext
  \/ GetVersioningError
  \/ ~destroyed /\ versioning # "none" /\ loadSeq = 0 /\ LoadDataBulk(1)
  \/ \E l \in listings : variant = "frontend" /\ ListNext(l)
  \/ \E l \in listings : variant = "app" /\ ListNextApp(l)
  \/ \E l \in listings : ListComplete(l)
  \/ \E l \in listings : ListError(l)
  \/ \E ev \in ExpandEventsUpTo(1) :
       /\ ~destroyed
       /\ variant = "frontend"
       /\ expandSeq = 0
       /\ OnExpandedRowsChange(ev, loadSeq + 1)
  \/ \E b \in batches : \E i \in 1..Len(b.sources) : FetchSucceed(b, i)
  \/ \E b \in batches : \E i \in 1..Len(b.sources) : FetchFail(b, i)
  \/ /\ ~destroyed
     /\ loadSeq > 0
     /\ ~Blocked
     /\ DoUpload(1, 1, loadSeq + Reserved + 1)
  \/ \E u \in uploads : UploadProgress(u)
  \/ \E u \in uploads : UploadComplete(u)
  \/ \E u \in uploads : \E err \in ErrMessages : UploadError(u, err)
  \/ versioning # "none" /\ NgOnDestroy

SpecDestroy == InitBulk /\ [][NextDestroy]_vars

\* A datatable with row selection: refreshes of its data, filter, sort and
\* page changes, and the selection of rows.
InitTable ==
  /\ CoreInit("frontend")
  /\ LifeInit
  /\ SideInit

NextTable ==
  \/ \E data \in TableData(MaxTableRows) : SetData(data)
  \/ \E filter \in SearchFilters : OnSearchFilterChange(filter)
  \/ ClearSearchFilter
  \/ \E prop \in {"id", "val"} : OnSortChange(prop)
  \/ \E page \in Pages : OnPageChange(page)
  \/ \E pageSize \in PageSizes : OnPageSizeChange(pageSize)
  \/ \E i \in DOMAIN table.filteredData : OnSelectRow(table.filteredData[i])
  \/ OnHeaderSelectRows
  \/ ClearSelection

SpecTable == InitTable /\ [][NextTable]_vars

\* The key validator beside one listing of the page.
InitValidate ==
  /\ \E v \in Variants : CoreInit(v)
  /\ LifeInit
  /\ table = TableState("multi")
  /\ fn = NoCall
  /\ SvcInit
  /\ \E prefixParts \in PrefixChoices : form = FormState(prefixParts)

NextValidate ==
  \/ loadSeq = 0 /\ LoadDataBulk(1)
  \/ \E l \in listings : variant = "frontend" /\ ListNext(l)
  \/ \E l \in listings : variant = "app" /\ ListNextApp(l)
  \/ \E l \in listings : ListComplete(l)
  \/ \E l \in listings : ListError(l)
  \/ \E value \in KeyInputs : \E pristine \in BOOLEAN : SetKeyInput(value, pristine)
  \/ Tick
  \/ UniqueObjectKey
  \/ ValidationTimer
  \/ \E resp \in BOOLEAN : ExistsObjectNext(resp)

SpecValidate == InitValidate /\ [][NextValidate]_vars

\* The helper functions, each called once with an input of its domain.
InitHelpers ==
  /\ CoreInit("frontend")
  /\ LifeInit
  /\ table = TableState("multi")
  /\ form = FormState(<< >>)
  /\ fn \in HelperCalls
  /\ SvcInit

NextHelpers ==
  \/ CallToBytes
  \/ CallBytesToSize
  \/ CallToBytesOfSize
  \/ CallBuildPrefix
  \/ CallSplitKeyOfPrefix

SpecHelpers == InitHelpers /\ [][NextHelpers]_vars

\* The listing reloaded while rows are expanded: loadData up to MaxLoads
\* times, between and after expansion events and their fetches.
NextReload ==
  \/ LoadData(MaxLoads, MaxOps)
  \/ \E l \in listings : ListNext(l)
  \/ \E l \in listings : ListComplete(l)
  \/ \E l \in listings : ListError(l)
  \/ \E ev \in ExpandEvents : OnExpandedRowsChange(ev, MaxOps)
  \/ \E b \in batches : \E i \in 1..Len(b.sources) : FetchSucceed(b, i)
  \/ \E b \in batches : \E i \in 1..Len(b.sources) : FetchFail(b, i)

SpecReload == Init /\ [][NextReload]_vars

\* The uploads of the page and its destruction: the first listing, then
\* uploads one after the other (the overlay blocks the page meanwhile);
\* every further listing is the reload of a completed upload.
MaxBlockFiles == 1
MaxBlockUploads == 1

\* the upload stream settles: it completes or fails
UploadSettles ==
  \E u \in uploads : UploadComplete(u) \/ \E err \in ErrMessages : UploadError(u, err)

NextBlock ==
  \/ loadSeq = 0 /\ LoadDataBulk(1)
  \/ \E l \in listings : variant = "frontend" /\ ListNext(l)
  \/ \E l \in listings : variant = "app" /\ ListNextApp(l)
  \/ \E l \in listings : ListComplete(l)
  \/ \E l \in listings : ListError(l)
  \/ /\ ~destroyed
     /\ loadSeq > 0
     /\ ~Blocked
     /\ DoUpload(MaxBlockFiles, MaxBlockUploads, loadSeq + Reserved + 1)
  \/ \E u \in uploads : UploadProgress(u)
  \/ UploadSettles
  \/ NgOnDestroy

\* The requests of an upload stream are answered or fail: a stream under
\* way settles.
SpecBlock == InitBulk /\ [][NextBlock]_vars /\ WF_vars(UploadSettles)

\* The navigation of the page: the first listing, the expansion of a row,
\* clicks on rows and the create-folder dialog.
MaxFolderLoads == 2
MaxFolders == 1

NextFolder ==
  \/ loadSeq = 0 /\ LoadDataBulk(1)
  \/ \E l \in listings : variant = "frontend" /\ ListNext(l)
  \/ \E l \in listings : variant = "app" /\ ListNextApp(l)
  \/ \E l \in listings : ListComplete(l)
  \/ \E l \in listings : ListError(l)
  \/ \E ev \in ExpandEventsUpTo(1) :
       /\ variant = "frontend"
       /\ expandSeq = 0
       /\ OnExpandedRowsChange(ev, loadSeq + 1)
  \/ \E b \in batches : \E i \in 1..Len(b.sources) : FetchSucceed(b, i)
  \/ \E b \in batches : \E i \in 1..Len(b.sources) : FetchFail(b, i)
  \/ \E row \in Range(objects) : \E name \in ColumnNames :
       loadSeq > 0 /\ OnRowSelection(row, [name |-> name], MaxFolderLoads)
  \/ loadSeq > 0 /\ DoCreateFolder(MaxFolders)
  \/ \E path \in FolderPaths : ConfirmCreateFolder(path)
  \/ CancelCreateFolder

SpecFolder == InitBulk /\ [][NextFolder]_vars

\* One call of AdminOpsBucketService.update and the calls it makes.
InitUpdate ==
  /\ CoreInit("frontend")
  /\ LifeInit
  /\ SideInit

NextUpdate ==
  \/ \E bucket \in UpdateInputs : Update(bucket)
  \/ UpdateGetError
  \/ \E stored \in StoredBuckets : UpdateGetNext(stored)
  \/ \E i \in 1..2 : UpdateCallDone(i)
  \/ \E i \in 1..2 : UpdateCallFail(i)

SpecUpdate == InitUpdate /\ [][NextUpdate]_vars

\* A datatable of selectionType 'single': the same handlers as above.
InitTableSingle ==
  /\ CoreInit("frontend")
  /\ LifeInit
  /\ table = TableState("single")
  /\ form = FormState(<< >>)
  /\ fn = NoCall
  /\ SvcInit

SpecTableSingle == InitTableSingle /\ [][NextTable]_vars

TypeOK ==
  /\ Len(rowReq) = Len(objects)
  /\ pageStatus \in {"none", "loading", "reloading", "ready", "loadingError"}
  /\ loadSeq = Len(reqContent)
  /\ expandSeq \in 0..MaxOps

\* ---------------------------------------------------------------------
\* Properties of the listing (SpecListing)
\* ---------------------------------------------------------------------
\* the answer of the listing of the last step
LastContent == reqContent[last.id]
\* the position of a record in a version list (the records of a list differ)
PosIn(content, r) == CHOOSE i \in DOMAIN content : content[i] = r
\* the listed records of key k that carry an explicit version id
ExplicitVersions(content, k) ==
  {i \in DOMAIN content :
     content[i].Key = k /\ IsObjectVersionID(content[i].VersionId, TRUE)}
\* key k has one latest, non-deleted record plus 2 older version records
OneLatestPlusTwo(content, k) ==
  /\ Cardinality({i \in DOMAIN content : content[i].Key = k /\ IsLatestLive(content[i])}) = 1
  /\ Cardinality({i \in DOMAIN content : content[i].Key = k /\ ~content[i].IsLatest}) = 2
  /\ Cardinality({i \in DOMAIN content : content[i].Key = k}) = 3

\* C1: the displayed row set contains only rows delivered by the most
\* recently started listing; a superseded listing never adds rows to it.
C1_RowsOfLatestListingOnly ==
  \A i \in DOMAIN objects : rowReq[i] = loadSeq

\* C2: when a listing completes, the displayed row set consists of exactly
\* its latest non-deleted records plus, iff showDeletedObjects is set, its
\* latest deleted records.
C2_DisplayedRowsAfterComplete ==
  last.op = "listComplete" =>
    LET expected == {r \in Range(LastContent) :
                       IsLatestLive(r) \/ (showDeletedObjects /\ IsLatestDeleted(r))}
    IN /\ Range(objects) = expected
       /\ Len(objects) = Cardinality(expected)

\* C3: in the displayed row set every non-deleted row precedes every
\* deleted row, and within each of the two groups the rows of a listing
\* keep the order in which the listing returned them.
C3_LiveRowsPrecedeDeletedRows ==
  \A i, j \in DOMAIN objects :
    i < j =>
      /\ ~(objects[i].IsDeleted /\ ~objects[j].IsDeleted)
      /\ (rowReq[i] = rowReq[j] /\ objects[i].IsDeleted = objects[j].IsDeleted)
           => PosIn(reqContent[rowReq[i]], objects[i])
                < PosIn(reqContent[rowReq[j]], objects[j])

\* C4: when a listing completes, objectNumVersions[K] is, for every listed
\* key K, the number of listed records of K with an explicit version id.
C4_VersionCountsAfterComplete ==
  last.op = "listComplete" =>
    \A k \in KeysOf(LastContent) :
      /\ Has(objectNumVersions, k)
      /\ objectNumVersions[k] = Cardinality(ExplicitVersions(LastContent, k))

\* C5 (as claimed): for a listing in which key A has one latest,
\* non-deleted record plus 2 older version records, the version count
\* computed for A is 2.
C5_CountIsTwo ==
  (last.op = "listComplete" /\ OneLatestPlusTwo(LastContent, "A"))
    => GetOr(objectNumVersions, "A", Undefined) = 2

\* C5 (amended): the emissions of such a listing, all of whose records of
\* A carry an explicit version id, raise objectNumVersions[A] by 3 in
\* total, not by 2: the latest record is counted like the older ones.
C5_LatestVersionIsCounted ==
  (/\ last.op = "listComplete"
   /\ OneLatestPlusTwo(LastContent, "A")
   /\ Cardinality(ExplicitVersions(LastContent, "A")) = 3)
    => GetOr(last.added, "A", 0) = 3

C5_Witness ==
  /\ last.op = "listComplete"
  /\ OneLatestPlusTwo(LastContent, "A")
  /\ Cardinality(ExplicitVersions(LastContent, "A")) = 3
  /\ GetOr(last.added, "A", 0) = 3
  /\ GetOr(objectNumVersions, "A", Undefined) = 3

\* C6: right after the failure of a listing call the row set is empty and
\* pageStatus is loadingError, also when the listing had added rows; the
\* error handler has issued no listing call.
C6_ListingErrorClearsRows ==
  last.op = "listError" =>
    /\ objects = << >>
    /\ pageStatus = "loadingError"
    /\ last.issued = 0
    /\ \A l \in listings : l.id <= loadSeq /\ l.id # last.id

C6_Witness ==
  /\ last.op = "listError"
  /\ last.partial
  /\ objects = << >>
  /\ pageStatus = "loadingError"

\* ---------------------------------------------------------------------
\* Properties of the attribute cache (Spec; C10: SpecBatch)
\* ---------------------------------------------------------------------
\* C7: if every batch so far has settled successfully before the next
\* expansion event, then whenever no fetch is outstanding the cache holds
\* entries of rows of the latest expansion event only.
C7_CacheWithinExpandedRows ==
  (expandSeq > 0 /\ seqOK /\ batches = {}) =>
    /\ DOMAIN objectAttrsCache \subseteq Range(lastEvent)
    /\ Cardinality(DOMAIN objectAttrsCache) <= Len(lastEvent)

\* C8: after expanding a row a, collapsing it and expanding another row b,
\* once all fetches have settled the cache holds exactly the entry of b.
C8_OnlyLastExpandedRowCached ==
  (scene.phase = 3 /\ batches = {}) =>
    DOMAIN objectAttrsCache = {lastEvent[1]}

\* C9: while a fetch of the latest expansion batch is outstanding, the keys
\* fetched by that batch are in loadingObjectAttrsKeys; once that batch has
\* settled, loadingObjectAttrsKeys is empty.
C9_LoadingKeysWhileFetching ==
  /\ \A b \in batches :
       b.id = expandSeq => Range(b.sources) \subseteq Range(loadingObjectAttrsKeys)
  /\ (last.op \in {"batchDone", "batchFail"} /\ last.id = expandSeq)
       => loadingObjectAttrsKeys = << >>

\* C10: the failure of one getObjectAttributes call of a batch writes
\* nothing to the cache, whatever the other calls of the batch have
\* delivered, and clears loadingObjectAttrsKeys.
C10_FailedBatchWritesNothing ==
  last.op = "batchFail" =>
    /\ ~last.wrote
    /\ loadingObjectAttrsKeys = << >>
    /\ \A b \in batches : b.id # last.id

C10_Witness ==
  /\ last.op = "batchFail"
  /\ last.partial
  /\ ~last.wrote
  /\ loadingObjectAttrsKeys = << >>

\* a row of the last expansion event whose key was not cached when the
\* event arrived and that is not a delete marker
NeedsFetch(r) == ~r.IsDeleted /\ r.Key \notin last.before
\* a delete-marker row of the last expansion event whose key was not cached
NeedsSynth(r) == r.IsDeleted /\ r.Key \notin last.before

\* C11: an expansion event issues no getObjectAttributes call for a row
\* that is a delete marker or whose key is cached already, and exactly one
\* call for every other row of the event; the entry of a newly expanded
\* delete-marker row is in the cache right after the event, with lock
\* mode NONE, retain-until '', legal hold OFF, an empty tag set and the
\* version count of objectNumVersions.
C11_CallsAndSynthesizedEntries ==
  last.op = "expand" =>
    /\ last.calls = KeySeq(SelectSeq(last.rows, NeedsFetch))
    /\ \A b \in batches : b.id = last.id => b.sources = last.calls
    /\ last.calls # << >> => \E b \in batches : b.id = last.id
    /\ \A i \in DOMAIN last.rows :
         NeedsSynth(last.rows[i]) =>
           /\ Has(objectAttrsCache, last.rows[i].Key)
           /\ objectAttrsCache[last.rows[i].Key] =
                [Key |-> last.rows[i].Key,
                 ObjectLockMode |-> "NONE",
                 ObjectLockRetainUntilDate |-> "",
                 ObjectLockLegalHoldStatus |-> "OFF",
                 TagSet |-> << >>,
                 NumVersions |-> GetOr(objectNumVersions, last.rows[i].Key, Undefined),
                 IsDeleted |-> TRUE,
                 src |-> "synth"]

\* an event with a cached row, a delete-marker row and one other row
C11_Witness ==
  /\ last.op = "expand"
  /\ \E i, j, k \in DOMAIN last.rows :
       /\ last.rows[i].Key \in last.before
       /\ NeedsSynth(last.rows[j])
       /\ NeedsFetch(last.rows[k])
       /\ last.calls = <<last.rows[k].Key>>
       /\ objectAttrsCache[last.rows[j].Key].src = "synth"
       /\ objectAttrsCache[last.rows[j].Key].NumVersions = 1

\* ---------------------------------------------------------------------
\* Properties of the bulk operations (SpecDelete, SpecDownload, SpecUpload)
\* ---------------------------------------------------------------------
\* C12: the deletes of a batch run one after another in selection order:
\* delete i+1 is started only after delete i has completed, and the
\* failure of delete i ends the batch without any later delete having
\* been started.
C12_DeletesRunSequentially ==
  /\ \A b \in deletes :
       /\ Len(b.sources) = Len(b.items)
       /\ \A i \in DOMAIN b.sources : b.sources[i].arg[1] = b.items[i].Key
       /\ \A i \in b.started : i > 1 => (i - 1) \in b.done
       /\ Cardinality(b.started \ b.done) = 1
  /\ last.op = "deleteFail" =>
       /\ last.others = 1..(last.n - 1)
       /\ \A b \in deletes : b.id # last.id

\* the first of three deletes has completed, the second one fails
C12_Witness ==
  /\ last.op = "deleteFail"
  /\ last.total = 3
  /\ last.n = 2
  /\ last.others = {1}

\* the remote calls that delete by prefix
PrefixDeletes == {"deleteObjectByPrefix", "deleteObjects"}

\* C13: a confirmed delete of N rows makes N remote delete calls, one per
\* row: for a FOLDER row one prefix-delete call whose prefix is the folder
\* key suffixed by the delimiter, for an OBJECT row one deleteObject call
\* for its key.
C13_OneDeleteCallPerRow ==
  \A b \in deletes :
    /\ Len(b.sources) = Len(b.items)
    /\ \A i \in DOMAIN b.items :
         IF b.items[i].Type = "FOLDER"
         THEN /\ b.sources[i].fn \in PrefixDeletes
              /\ b.sources[i].arg = <<b.items[i].Key, Delimiter>>
         ELSE /\ b.sources[i].fn = "deleteObject"
              /\ b.sources[i].arg = <<b.items[i].Key>>

\* C14: once a confirmed delete batch has settled, by the completion of
\* its last delete or by the failure of one of its deletes, loadData has
\* been called.
C14_ReloadAfterDeleteBatch ==
  last.op \in {"deleteComplete", "deleteFail"} =>
    /\ last.issued = 1
    /\ \E l \in listings : l.id = loadSeq /\ l.pos = 0

\* C15: all calls of a delete batch carry the allVersions value chosen at
\* the confirmation, and that value is false when the page regarded the
\* bucket as not versioned (when doDelete ran, and when the user confirmed).
C15_SameAllVersionsForAllCalls ==
  /\ \A b \in deletes :
       /\ \A i \in DOMAIN b.sources : b.sources[i].allVersions = b.allVersions
       /\ ~b.ex => ~b.allVersions
  /\ (last.op = "confirmDelete" /\ ~isBucketVersioned) =>
       \A b \in deletes : b.id = last.id => ~b.allVersions

\* a batch of a folder and an object, deleted with all versions
C15_Witness ==
  \E b \in deletes :
    /\ b.allVersions
    /\ b.ex
    /\ \E i, j \in DOMAIN b.items :
         /\ b.items[i].Type = "FOLDER"
         /\ b.items[j].Type = "OBJECT"
         /\ b.sources[i].allVersions
         /\ b.sources[j].allVersions

\* C16: when the bucket is version-enabled, every delete requested after
\* the initialisation of the page is confirmed in the extended dialog.
C16_VersionedBucketAsksExtended ==
  (dialog.open /\ bucketVersioned) => dialog.ex

\* C17: all downloads of a batch are started at once, and the failure of
\* one of them leaves the others running: none of them is cancelled.
C17_DownloadsAreIndependent ==
  /\ \A d \in downloads : d.started = 1..Len(d.keys)
  /\ last.op = "downloadFail" => last.others = {}

\* C18: the success message of a completed upload is chosen from the
\* last loaded value the stream has reported (0 if none): the 'all
\* succeeded' message iff it equals the number of files, else the partial
\* message with that value.
C18_UploadSuccessMessage ==
  last.op = "uploadComplete" =>
    last.note = IF last.n = last.total THEN AllNote(last.total)
                ELSE PartNote(last.n, last.total)

\* C19: when the upload of item 3 of 5 files throws, the final message
\* reports 2 completed items, and the error ends in a notification.
C19_TwoOfFiveReported ==
  (last.op = "uploadError" /\ last.total = 5 /\ last.n = 2) =>
    /\ last.note.kind # "none"
    /\ last.note.args # << >>
    /\ last.note.args[1] = 2

\* C20: the completion of an upload stream calls loadData once; its
\* failure issues no listing call, leaves the row set, the attribute cache
\* and the version count index as they were and shows the message of the
\* error unchanged in an error notification.
C20_ReloadOnlyOnCompletion ==
  /\ last.op = "uploadComplete" =>
       /\ last.issued = 1
       /\ \E l \in listings : l.id = loadSeq /\ l.pos = 0
  /\ last.op = "uploadError" =>
       /\ last.issued = 0
       /\ ~last.wrote
       /\ last.note = [kind |-> "error", text |-> UploadFailed,
                       args |-> << >>, error |-> last.input]

\* an upload fails after part of the files while rows are displayed and
\* the cache and the index are not empty
C20_Witness ==
  /\ last.op = "uploadError"
  /\ last.partial
  /\ last.note.error = "Forbidden"
  /\ objects # << >>
  /\ objectAttrsCache # EmptyMap
  /\ objectNumVersions # EmptyMap
  /\ ~last.wrote

PassesFilter(r) == IsLatestLive(r) \/ (showDeletedObjects /\ IsLatestDeleted(r))

\* the emission that listing l has delivered last
LastPageOf(l) ==
  SubSeq(reqContent[l.id], ((l.pos - 1) \div MaxPage) * MaxPage + 1, l.pos)

\* C22: the 'show deleted' action flips showDeletedObjects and starts
\* exactly one listing call, with the row set emptied (no local filtering
\* of the records fetched before); every emission of that reload adds its
\* records filtered with the new value of the flag, and when that reload
\* completes every row shown passes the filter for the new value.
C22_ToggleReloadsWithNewFlag ==
  /\ last.op = "toggleShowDeleted" =>
       /\ showDeletedObjects = ~last.flag
       /\ last.issued = 1
       /\ objects = << >>
       /\ \E l \in listings : l.id = loadSeq /\ l.pos = 0
       /\ toggleReq = loadSeq
  /\ (last.op = "listNext" /\ last.id = toggleReq /\ toggleReq = loadSeq) =>
       \A l \in listings :
         l.id = last.id =>
           LET new == NewObjects(LastPageOf(l), showDeletedObjects)
               n == Len(objects)
           IN /\ n >= Len(new)
              /\ SubSeq(objects, n - Len(new) + 1, n) = new
              /\ \A i \in (n - Len(new) + 1)..n : rowReq[i] = l.id
  /\ (last.op = "listComplete" /\ last.id = toggleReq /\ toggleReq = loadSeq) =>
       \A i \in DOMAIN objects : PassesFilter(objects[i])

\* the reload of an activation that has set the flag completes with a
\* deleted row shown
C22_Witness ==
  /\ last.op = "listComplete"
  /\ last.id = toggleReq
  /\ toggleReq = loadSeq
  /\ loadSeq > 1
  /\ showDeletedObjects
  /\ \E i \in DOMAIN objects : objects[i].IsDeleted

\* ---------------------------------------------------------------------
\* Properties of the datatable (SpecTable)
\* ---------------------------------------------------------------------
\* C23 (as stated): after a handler that ends with applyFilters() and
\* updateSelection(), a row selected before is selected if and only if a
\* row of its identifier is displayed, and every selected entry is the row
\* object of the new data
C23_SelectedAreObjectsOfData ==
  last.op = "refresh" =>
    /\ \A id \in last.before :
         HasId(table.selected, id) <=> HasId(table.filteredData, id)
    /\ \A j \in DOMAIN table.selected :
         /\ table.selected[j].id \in last.before
         /\ table.selected[j] = FindById(table.filteredData, table.selected[j].id)
         /\ ~table.oldRows

\* C23 (amended): after such a handler a row selected before is selected
\* if and only if a row of its identifier is displayed, and every selected
\* entry is the first displayed row of its identifier, which is equal field
\* by field to a row of the data
C23_SelectionFollowsDisplayedRows ==
  last.op = "refresh" =>
    /\ \A id \in last.before :
         HasId(table.selected, id) <=> HasId(table.filteredData, id)
    /\ \A j \in DOMAIN table.selected :
         /\ table.selected[j].id \in last.before
         /\ table.selected[j] = FindById(table.filteredData, table.selected[j].id)
         /\ \E i \in DOMAIN table.data : table.data[i] = table.selected[j]

\* a refresh that drops one selected row and replaces the other one by a
\* row of the same identifier and another value
C23_Witness ==
  /\ last.op = "refresh"
  /\ Cardinality(last.before) = 2
  /\ Len(table.data) = 2
  /\ Len(table.filteredData) = 2
  /\ Len(table.selected) = 1

\* C24: a call of the validator for a pristine control or an empty value
\* issues no existsObject call and yields null at once; any other call
\* issues existsObject for buildKey(value, prefixParts) no earlier than 200
\* ms after it started, and yields 'The path already exists.' if and only
\* if the answer is true; no step of the validator changes the rows, the
\* cache, the counts or the prefix path of the page
C24_ValidatorDebouncedAndLocal ==
  /\ form.validation.phase # "none" =>
       LET v == form.validation
       IN IF v.pristine \/ v.value = << >>
          THEN v.phase = "done" /\ v.calls = << >> /\ v.error = ""
          ELSE /\ v.phase = "timer" => v.calls = << >>
               /\ \A c \in DOMAIN v.calls :
                    /\ v.calls[c].key = BuildKey(v.value, form.prefixParts)
                    /\ v.calls[c].after >= ValidationDelay
               /\ Len(v.calls) <= 1
               /\ v.phase = "done" =>
                    /\ Len(v.calls) = 1
                    /\ v.error = PathExists <=> v.resp
                    /\ v.error \in {"", PathExists}
               /\ v.phase # "done" => v.error = ""
  /\ last.op \in {"uniqueObjectKey", "validationTimer", "existsObjectNext"} =>
       form.page = <<PageState, form.prefixParts>>

\* with rows displayed, the second validation, of a key in a folder, has
\* found the key taken
C24_Witness ==
  /\ objects # << >>
  /\ form.prefixParts # << >>
  /\ form.calls = 2
  /\ form.validation.phase = "done"
  /\ form.validation.error = PathExists
  /\ last.op = "existsObjectNext"

\* a validation of a pristine control with a value was skipped
C24_WitnessSkipped ==
  /\ form.validation.phase = "done"
  /\ form.validation.pristine
  /\ form.validation.value # << >>

\* the inputs of C25: the digits of an integer n, then nothing or a unit
\* letter of either case, itself after one space or none and before b, ib
\* or nothing. LeadingDigits is the number of digits a text starts with.
RECURSIVE LeadingDigits(_)
LeadingDigits(s) ==
  IF s = << >> \/ s[1] \notin DigitChars THEN 0 ELSE 1 + LeadingDigits(Tail(s))

UnitOfText(s) ==
  LET rest == SubSeq(s, LeadingDigits(s) + 1, Len(s))
  IN IF rest # << >> /\ rest[1] = " " THEN Tail(rest) ELSE rest

IsIntegerText(s) ==
  LET unit == LowerCaseAll(UnitOfText(s))
  IN /\ LeadingDigits(s) > 0
     /\ \/ LeadingDigits(s) = Len(s)
        \/ /\ unit # << >>
           /\ UnitIndex(unit[1]) >= 0
           /\ Tail(unit) \in {<< >>, <<"b">>, <<"i", "b">>}

\* n and index(u) of such a text
IntegerOfText(s) == FromDigits(SubSeq(s, 1, LeadingDigits(s)))
IndexOfText(s) ==
  IF LeadingDigits(s) = Len(s) THEN 0 ELSE UnitIndex(LowerCase(UnitOfText(s)[1]))

\* 2^53
SafeLimit == ShiftUp(Num(Pow2(MantissaBits % 10)), MantissaBits \div 10)

\* C25 (as stated): for an integer n with or without unit toBytes returns
\* n * 1024^index(u), and a number without unit is returned unchanged
C25_IntegerTimesPowerOf1024 ==
  (fn.name = "toBytes" /\ fn.output # Pending) =>
    /\ (fn.input.kind = "string" /\ IsIntegerText(fn.input.value)) =>
         fn.output = NumberValue(ShiftUp(IntegerOfText(fn.input.value),
                                         IndexOfText(fn.input.value)))
    /\ fn.input.kind = "number" => fn.output = fn.input

\* C25 (amended): for an integer n below 2^53 with or without unit toBytes
\* returns n * 1024^index(u), for a larger one the value of type number
\* nearest to n times 1024^index(u); a number below 10^21 without unit is
\* returned unchanged, a larger one gives null
C25_SafeIntegerTimesPowerOf1024 ==
  (fn.name = "toBytes" /\ fn.output # Pending) =>
    /\ (fn.input.kind = "string" /\ IsIntegerText(fn.input.value)) =>
         LET n == IntegerOfText(fn.input.value)
             index == IndexOfText(fn.input.value)
         IN /\ LessThan(n, SafeLimit) => fn.output = NumberValue(ShiftUp(n, index))
            /\ fn.output = NumberValue(ShiftUp(ToNumber(n), index))
    /\ fn.input.kind = "number" =>
         IF LessThan(fn.input.value, TimesPow10(Num(1), 21))
         THEN fn.output = fn.input
         ELSE fn.output = NullValue

\* toBytes('15 kib') has returned 15360
C25_Witness ==
  /\ fn.name = "toBytes"
  /\ fn.input = StringValue(<<"1", "5", " ", "k", "i", "b">>)
  /\ fn.output = NumberValue(<<0, 15>>)

\* the grammar ^\d+(\.\d+)? ?[unit]?(b|ib|B/s)?$ of C26
MatchesGrammar(s) ==
  LET n == NumberEnd(s)
      rest == SubSeq(s, n + 1, Len(s))
      unit == IF rest # << >> /\ rest[1] = " " THEN Tail(rest) ELSE rest
  IN n > 0 /\ MatchesNumberDot(SubSeq(s, 1, n)) /\ MatchesUnit(unit)

\* C26: toBytes returns null for the inputs that do not match the grammar
\* with the dot as the only separator, and a number for those that match
C26_NullOutsideGrammar ==
  (fn.name = "toBytes" /\ fn.output # Pending) =>
    (fn.output = NullValue <=> ~MatchesGrammar(ToStr(fn.input)))

\* C27: for k in 0..8 bytesToSize(1024^k) is '1 ' and the k-th unit name,
\* and toBytes gives 1024^k back for it
C27_PowersOf1024RoundTrip ==
  \A k \in 0..(Len(Sizes) - 1) :
    fn.input = NumberValue(Pow1024(k)) =>
      /\ (fn.name = "bytesToSize" /\ fn.output # Pending) =>
           fn.output = StringValue(<<"1", " ">> \o Sizes[k + 1])
      /\ fn.name = "toBytesOfSize" =>
           /\ fn.via = StringValue(<<"1", " ">> \o Sizes[k + 1])
           /\ fn.output = fn.input

\* 1024^8 has gone through bytesToSize and toBytes
C27_Witness ==
  /\ fn.name = "toBytesOfSize"
  /\ fn.input = NumberValue(Pow1024(8))
  /\ fn.via = StringValue(<<"1", " ", "Y", "i", "B">>)
  /\ fn.output = NumberValue(Pow1024(8))

\* segments that are not empty and hold no delimiter
PlainSegments(parts) ==
  \A i \in DOMAIN parts :
    parts[i] # << >> /\ \A j \in DOMAIN parts[i] : parts[i][j] # Delimiter

\* C28: splitKey(buildPrefix(segments, false)) is segments when every
\* segment is non-empty and free of the delimiter
C28_SplitKeyOfBuildPrefix ==
  (/\ fn.name = "splitKeyOfPrefix"
   /\ ~fn.input.trailingDelimiter
   /\ PlainSegments(fn.input.parts))
    => fn.output = ListValue(fn.input.parts)

\* the segments 'aa' and 'a' have gone through buildPrefix and splitKey
C28_Witness ==
  /\ fn.name = "splitKeyOfPrefix"
  /\ ~fn.input.trailingDelimiter
  /\ fn.input.parts = << <<"a", "a">>, <<"a">> >>
  /\ fn.via = StringValue(<<"a", "a", "/", "a">>)
  /\ fn.output = ListValue(fn.input.parts)

\* C29: when an expansion event has occurred while fetches of an earlier
\* batch of the same listing were outstanding, no fetch of this listing has
\* failed, no batch of an earlier listing was outstanding at the reload and
\* no fetch is outstanding any more, the cache holds an entry for every row
\* of the latest expansion event and for no other row.
C29_OverlappingBatchesSettleToLatestEvent ==
  (scene.race = "overlap" /\ scene.since = 0 /\ batches = {}) =>
    DOMAIN objectAttrsCache = Range(lastEvent)

\* C30: a batch of fetches issued before the latest reload adds nothing to
\* the cache when it settles after that reload.
C30_StaleBatchAddsNothing ==
  (last.op = "batchDone" /\ last.id <= scene.since) =>
    DOMAIN objectAttrsCache \subseteq last.before

\* the changes of pageStatus along the cycle none -> loading ->
\* (ready | loadingError) -> reloading -> (ready | loadingError) -> ...
StatusCycle ==
  {<<"none", "loading">>,
   <<"loading", "ready">>, <<"loading", "loadingError">>,
   <<"ready", "reloading">>, <<"loadingError", "reloading">>,
   <<"reloading", "ready">>, <<"reloading", "loadingError">>}

\* C31: every change of pageStatus is a step of the cycle none -> loading ->
\* (ready | loadingError) -> reloading -> (ready | loadingError) -> ..., and
\* once a listing has finalised pageStatus is never loading again.
C31_PageStatusFollowsCycle ==
  [][/\ pageStatus' # pageStatus => <<pageStatus, pageStatus'>> \in StatusCycle
     /\ firstLoadComplete => pageStatus' # "loading"]_vars

\* C32: when pageStatus is ready no listing started by loadData is
\* outstanding, and while the most recently started listing is outstanding
\* pageStatus is loading or reloading.
C32_ReadyMeansNoListingOutstanding ==
  /\ pageStatus = "ready" => listings = {}
  /\ (\E l \in listings : l.id = loadSeq) => pageStatus \in {"loading", "reloading"}

C34_RowSelectionNavigatesFoldersOnly ==
  last.op = "onRowSelection" =>
    IF last.rows[1].Type = "FOLDER" /\ last.input # ""
    THEN /\ form.prefixParts = SplitKey(KeyText(last.rows[1].Key))
         /\ last.issued = 1
         /\ \E l \in listings : l.id = loadSeq /\ l.pos = 0
    ELSE /\ form.prefixParts = form.page[2]
         /\ objects = form.page[1][1]
         /\ objectAttrsCache = form.page[1][2]
         /\ pageStatus = form.page[1][5]
         /\ last.issued = 0
         /\ ~last.wrote

\* the folder row F/G/ has been clicked in the Key column while rows were
\* displayed and an entry was cached: the path is F, G and a reload runs
C34_Witness ==
  /\ last.op = "onRowSelection"
  /\ last.rows[1].Type = "FOLDER"
  /\ last.input = "Key"
  /\ form.prefixParts = << <<"F">>, <<"G">> >>
  /\ form.page[1][1] # << >>
  /\ last.issued = 1

\* C35: confirming the create-folder dialog with path p appends splitKey(p)
\* to prefixParts, empties the rows and issues neither a listing call nor a
\* call that writes to the store; cancelling the dialog leaves prefixParts
\* and the rows unchanged.
C35_CreateFolderAppendsPathOnly ==
  /\ last.op = "confirmCreateFolder" =>
       /\ form.prefixParts = form.page[2] \o SplitKey(form.value)
       /\ objects = << >>
       /\ last.issued = 0
       /\ ~last.wrote
  /\ last.op = "cancelCreateFolder" =>
       /\ form.prefixParts = form.page[2]
       /\ objects = form.page[1][1]

\* inside the folder F/G/, with rows displayed, the dialog has been
\* confirmed with the path a/b
C35_Witness ==
  /\ last.op = "confirmCreateFolder"
  /\ form.page[2] = << <<"F">>, <<"G">> >>
  /\ form.page[1][1] # << >>
  /\ form.value = <<"a", Delimiter, "b">>
  /\ form.prefixParts = << <<"F">>, <<"G">>, <<"a">>, <<"b">> >>
  /\ objects = << >>

\* the calls update has issued so far, by name
Issued(name) == {i \in upd.started : upd.sources[i].name = name}
Planned(name) == {i \in DOMAIN upd.sources : upd.sources[i].name = name}
\* get has delivered the stored bucket to update
Fetched ==
  upd.phase \in {"run", "done"} \/ (upd.phase = "failed" /\ upd.failedAt > 0)
OwnerChanges ==
  upd.input.owner # Absent /\ upd.input.owner # upd.original.owner

\* C36: when the owner changes, link is issued, and setAttributes is issued
\* only after link has completed; when link fails, setAttributes has not
\* been issued and update has failed.
C36_LinkCompletesBeforeSetAttributes ==
  (Fetched /\ OwnerChanges) =>
    /\ upd.sources[1].name = "link"
    /\ 1 \in upd.started
    /\ Issued("setAttributes") # {} => 1 \in upd.done
    /\ upd.phase = "done" => Planned("setAttributes") \subseteq upd.done
    /\ upd.failedAt = 1 => (Issued("setAttributes") = {} /\ upd.phase = "failed")

\* the owner and an attribute change: link has completed and setAttributes
\* is under way
C36_Witness ==
  /\ upd.phase = "run"
  /\ OwnerChanges
  /\ Len(upd.sources) = 2
  /\ upd.done = {1}
  /\ upd.started = {1, 2}

\* attribute a is defined in the input and differs from the stored bucket
DefinedAndDiffers(a) ==
  upd.input[a] # Absent /\ upd.input[a] # upd.original[a]

\* C37: isEqualOrUndefined is true when one of the values is undefined and
\* is their equality otherwise; update plans setAttributes only if one of
\* tags, versioning_enabled and the retention attributes is defined in the
\* input and differs from the stored bucket; when there is neither such a
\* difference nor a change of the owner, it issues no call and returns
\* the stored bucket unchanged.
C37_SetAttributesOnlyForDifferences ==
  Fetched =>
    /\ \A a \in UpdateAttrs :
         IsEqualOrUndefined(upd.input[a], upd.original[a]) =
           (upd.input[a] = Absent \/ upd.original[a] = Absent
              \/ upd.input[a] = upd.original[a])
    /\ Planned("setAttributes") # {} => \E a \in UpdateAttrs : DefinedAndDiffers(a)
    /\ (~OwnerChanges /\ \A a \in UpdateAttrs : ~DefinedAndDiffers(a)) =>
         /\ upd.sources = << >>
         /\ upd.phase = "done"
         /\ upd.result = upd.original

\* the input names the stored owner and tags and leaves the rest undefined:
\* update has returned the stored bucket without a call
C37_Witness ==
  /\ upd.phase = "done"
  /\ upd.input.owner = upd.original.owner
  /\ upd.input.tags = upd.original.tags
  /\ upd.input.versioning_enabled = Absent
  /\ upd.original.object_lock_enabled = "true"
  /\ upd.sources = << >>
  /\ upd.result = upd.original

\* C38: the bucket update returns has, for every attribute that is
\* undefined in the input, the value of the stored bucket.
C38_UnspecifiedAttributesKept ==
  (upd.phase = "done") =>
    \A a \in ExtraAttrs \cup {"owner"} :
      upd.input[a] = Absent => upd.result[a] = upd.original[a]

\* C39: a setAttributes call resolves the credentials of the owner the
\* bucket has after the update, never of an undefined user.
C39_SetAttributesUsesOwner ==
  Fetched =>
    \A i \in Planned("setAttributes") :
      /\ upd.sources[i].uid = upd.current.owner
      /\ upd.sources[i].uid # Absent

\* C40: with selectionType 'single' the selection of the datatable holds at
\* most one row in every reachable state, whatever sequence of onSelectRow,
\* onHeaderSelectRows, clearSelection, data replacements and filter, sort
\* and page changes led to it.
C40_SingleSelectionHasAtMostOneRow ==
  table.selectionType = "single" => Len(table.selected) <= 1

====
